---- MODULE Spec2Model ----
(***************************************************************************)
(* A model of the toolable command dispatcher (AgentCLI.run and            *)
(* AgentCLI._run_tool), its timeout deadline, and the streaming and        *)
(* session drivers.  One behaviour of the model is one call of run().      *)
(***************************************************************************)
EXTENDS Integers, Sequences, FiniteSets, TLC

\* ---------------------------------------------------------------- bounds
\* most events a generator that ends by itself yields
MaxYield == 3
\* longest recorded history (stdout, lines read, values sent, events yielded)
MaxHist == MaxYield + 2
\* largest number of dispatcher flags that follow the command name
MaxFlags == 2

\* ------------------------------------------------------- program constants
\* cli.py:234  "if input_obj.timeout > 600"
MaxTimeout == 600

\* ------------------------------------------------------------ Python values
Null == "None"

\* a dict value; d is the record of its keys
Dict(r) == [t |-> "dict", d |-> r]
\* any value that is not a dict
Scalar(x) == [t |-> "scalar", d |-> [value |-> x]]
\* something json.dumps cannot serialise (it raises TypeError)
Unserialisable == [t |-> "object", d |-> [value |-> "object"]]
\* human-readable text on stdout (not JSON)
Text(x) == [t |-> "text", d |-> [value |-> x]]

IsDict(v) == v.t = "dict"
HasKey(v, k) == IsDict(v) /\ k \in DOMAIN v.d

\* history append; a history keeps its first MaxHist entries
Push(h, x) == IF Len(h) < MaxHist THEN Append(h, x) ELSE h

\* ------------------------------------------------------------------ errors
RecoverableCodes ==
    {"INVALID_INPUT", "MISSING_PARAM", "INVALID_PATH", "NOT_FOUND", "CONFLICT", "PRECONDITION"}

ErrorCodes == RecoverableCodes \cup {"TIMEOUT", "PERMISSION", "INTERNAL", "DEPENDENCY"}

\* an error code table in which every kind can be retried
AllRecoverable(code) == code \in ErrorCodes

\* ErrorCode.recoverable
CodeRecoverable(code) == code \in RecoverableCodes

\* ToolError.__init__; recoverable is "None", "True" or "False"
ToolError(code, message, recoverable, suggestion) ==
    [type |-> "ToolError",
     code |-> code,
     message |-> message,
     recoverable |-> IF recoverable = Null THEN CodeRecoverable(code) ELSE recoverable = "True",
     suggestion |-> suggestion]

\* any exception that is not a ToolError; str(e) is its message
OtherException(message) ==
    [type |-> "Exception", code |-> Null, message |-> message,
     recoverable |-> FALSE, suggestion |-> Null]

NoExc ==
    [type |-> "none", code |-> Null, message |-> [text |-> Null, arg |-> Null],
     recoverable |-> FALSE, suggestion |-> Null]

\* Response.success
ResponseSuccess(result) == Dict([status |-> "success", result |-> result])

\* Response.error; the suggestion key is present only for a truthy suggestion
ResponseError(code, message, recoverable, suggestion) ==
    Dict([status |-> "error",
          error |-> IF suggestion # Null /\ suggestion # ""
                    THEN [code |-> code, message |-> message,
                          recoverable |-> recoverable, suggestion |-> suggestion]
                    ELSE [code |-> code, message |-> message, recoverable |-> recoverable]])

\* ToolError.to_response
ToResponse(e) == ResponseError(e.code, e.message, e.recoverable, e.suggestion)

IsErrorEnvelope(v) == HasKey(v, "status") /\ v.d.status = "error" /\ "error" \in DOMAIN v.d
IsSuccessEnvelope(v) == HasKey(v, "status") /\ v.d.status = "success"

\* ------------------------------------------------------------ registrations
\* _toolable_meta as _run_tool reads it: meta.get("streaming"),
\* meta.get("session_mode"), meta.get("input_model")
Metas == [streaming : BOOLEAN, session_mode : BOOLEAN, input_model : BOOLEAN]

PlainMeta == [streaming |-> FALSE, session_mode |-> FALSE, input_model |-> FALSE]

\* AgentCLI._tools after construction: one tool of any metadata, or two tools
Registries ==
    {[n \in {"t1"} |-> m] : m \in Metas}
    \cup {[n \in {"t1", "t2"} |-> PlainMeta]}

\* AgentCLI._prompts
PromptNames == {"p1"}

\* a tool declared streaming or session_mode is a generator function: calling
\* it creates the generator and runs none of its body
IsGeneratorFn(meta) == meta.streaming \/ meta.session_mode

\* ---------------------------------------------------------------- arguments
GlobalFlags == {"--discover", "--tools", "--resources", "--prompts"}

\* per-tool tokens, in the order in which a generated argument list holds them
ToolTokens ==
    <<"--manifest", "--help", "--validate", "{doc}", "{inv}", "{bad", "--stream", "--session">>

RECURSIVE OrderedLists(_, _)
\* the lists of at most n tokens taken from ToolTokens[from..] in increasing position
OrderedLists(from, n) ==
    IF n = 0 \/ from > Len(ToolTokens)
    THEN {<<>>}
    ELSE OrderedLists(from + 1, n)
         \cup {<<ToolTokens[from]>> \o rest : rest \in OrderedLists(from + 1, n - 1)}

FlagLists == OrderedLists(1, MaxFlags)

\* sys.argv[1:] of a tool invocation: an optional first token, then flags
ToolArgLists ==
    FlagLists \cup {<<c>> \o f : c \in {"t1", "t2", "zz"}, f \in FlagLists}

\* sys.argv[1:] of the other invocations
GlobalArgLists ==
    {<<>>, <<"--help">>, <<"--resource">>, <<"--resource", "/f/1">>,
     <<"--resource", "/n">>, <<"t1", "--resource">>,
     <<"--prompt">>, <<"--prompt", "p1">>, <<"--prompt", "p1", "{doc}">>,
     <<"--prompt", "p9", "{doc}">>, <<"--prompt", "p1", "{bad">>}
    \cup {<<g>> : g \in GlobalFlags}
    \cup {<<"t1", g>> : g \in GlobalFlags}

\* tool invocations whose flags stand in another order than ToolTokens
ReorderedArgLists ==
    {<<"t1", "--help", "--manifest">>, <<"t1", "--validate", "--manifest">>,
     <<"t1", "--validate", "--help">>, <<"t1", "{doc}", "--manifest">>,
     <<"t1", "{doc}", "--help">>, <<"t1", "{doc}", "--validate">>,
     <<"t1", "--name", "{doc}">>, <<"t1", "--name", "5">>}

ArgLists == ToolArgLists \cup GlobalArgLists \cup ReorderedArgLists

\* "x in args"
In(x, args) == \E i \in 1..Len(args) : args[i] = x

\* args.index(x), 0-based as in the source
Index(x, args) == (CHOOSE i \in 1..Len(args) : args[i] = x /\ \A j \in 1..(i - 1) : args[j] # x) - 1

\* args[i] with the source's 0-based index
At(args, i) == args[i + 1]

\* args[1:]
Rest(args) == SubSeq(args, 2, Len(args))

\* arg.startswith("{")
StartsWithBrace(tok) == tok \in {"{doc}", "{inv}", "{bad"}

\* arg.startswith("--")
StartsWithDashes(tok) ==
    tok \in {"--manifest", "--help", "--validate", "--stream", "--session", "--sample-via",
             "--discover", "--tools", "--resources", "--prompts", "--resource", "--prompt",
             "--name", "--dry-run", "--dry_run"}

\* ---------------------------------------------------------- input documents
\* The input document that the token "{doc}" holds.  declares: the reserved
\* fields the tool's input model declares (and the document sets).
Fields == {"working_dir", "timeout", "dry_run"}

TimeoutValues == {-1, 0, 1, MaxTimeout, MaxTimeout + 1}

Docs ==
    {[declares |-> {}, timeout_none |-> TRUE, timeout |-> 0,
      working_dir |-> Null, dry_run |-> FALSE]}
    \cup {[declares |-> Fields, timeout_none |-> TRUE, timeout |-> 0,
           working_dir |-> w, dry_run |-> d] : w \in {Null, "/work", "/missing"}, d \in BOOLEAN}
    \cup {[declares |-> Fields, timeout_none |-> FALSE, timeout |-> n,
           working_dir |-> w, dry_run |-> d] :
            n \in TimeoutValues, w \in {Null, "/work", "/missing"}, d \in BOOLEAN}

\* the object an input model builds from no data: every declared field at its default
DefaultsOf(d) ==
    [declares |-> d.declares, timeout_none |-> TRUE, timeout |-> 0,
     working_dir |-> Null, dry_run |-> FALSE]

EmptyDoc == DefaultsOf([declares |-> {}])

\* the document sets a timeout for which _setup_timeout is called
TimeoutInRange(d) ==
    "timeout" \in d.declares /\ ~d.timeout_none /\ d.timeout \in 1..MaxTimeout

\* a check that takes every path for an existing directory
EveryPathIsDir(path) == TRUE

\* os.path.isdir
IsDir(path) == path \in {"/work", "/cwd0"}

\* json.loads succeeds on the token
IsJson(tok) == tok \in {"{doc}", "{inv}"}

\* an error message: a fixed text and the value formatted into it
Msg(text, arg) == [text |-> text, arg |-> arg]

\* ---------------------------------------------------------------- resources
\* the characters of a URI or a URI pattern; a placeholder {name} is one element
Chars(s) ==
    CASE s = "/f/{id}" -> <<"/", "f", "/", "{id}">>
      [] s = "/f/1" -> <<"/", "f", "/", "1">>
      [] s = "/n" -> <<"/", "n">>
      [] s = "/f/{id}.j" -> <<"/", "f", "/", "{id}", ".", "j">>
      [] s = "/{a}/{id}" -> <<"/", "{a}", "/", "{id}">>
      [] s = "/f/[1]" -> <<"/", "f", "/", "[", "1", "]">>
      [] s = "/{a}.{id}" -> <<"/", "{a}", ".", "{id}">>
      [] s = "/f/1.j" -> <<"/", "f", "/", "1", ".", "j">>
      [] s = "/f/1Xj" -> <<"/", "f", "/", "1", "X", "j">>
      [] s = "/f/1.j/1" -> <<"/", "f", "/", "1", ".", "j", "/", "1">>
      [] s = "/f/" -> <<"/", "f", "/">>
      [] s = "/f/11" -> <<"/", "f", "/", "1", "1">>
      [] s = "/1.1.j" -> <<"/", "1", ".", "1", ".", "j">>
      [] OTHER -> <<>>

IsPlaceholder(c) == c \in {"{id}", "{a}"}

\* the parameter name of a placeholder
PlaceholderName(c) == IF c = "{id}" THEN "id" ELSE "a"

\* a pattern compiled without re.escape: "." stands for any character and
\* "[", "]" enclose a set of characters
Unescaped(c, d) == c = "." \/ (c = d /\ c \notin {"[", "]"})

\* re.escape(temp_pattern): every character of the pattern outside the
\* placeholders stands for itself
Escaped(c, d) == c = d

RECURSIVE MatchFrom(_, _, _, _)
\* re.fullmatch of the compiled pattern p[i..] against u[j..]: a literal matches
\* itself, a placeholder matches one or more characters other than "/"
MatchFrom(p, i, u, j) ==
    IF i > Len(p)
    THEN j > Len(u)
    ELSE IF IsPlaceholder(p[i])
         THEN \E k \in j..Len(u) :
                 /\ \A m \in j..k : u[m] # "/"
                 /\ MatchFrom(p, i + 1, u, k + 1)
         ELSE j <= Len(u) /\ Escaped(p[i], u[j]) /\ MatchFrom(p, i + 1, u, j + 1)

UriMatches(pattern, uri) == MatchFrom(Chars(pattern), 1, Chars(uri), 1)

RECURSIVE GroupsFrom(_, _, _, _)
\* match.groupdict() of that match, as the set of <<name, characters>> pairs:
\* [^/]+ is greedy, so each placeholder takes the longest run that lets the
\* rest of the pattern match
GroupsFrom(p, i, u, j) ==
    IF i > Len(p)
    THEN {}
    ELSE IF IsPlaceholder(p[i])
         THEN LET ends == {k \in j..Len(u) :
                              /\ \A m \in j..k : u[m] # "/"
                              /\ MatchFrom(p, i + 1, u, k + 1)}
                  k == CHOOSE e \in ends : \A o \in ends : o <= e
              IN  {<<PlaceholderName(p[i]), SubSeq(u, j, k)>>}
                      \cup GroupsFrom(p, i + 1, u, k + 1)
         ELSE GroupsFrom(p, i + 1, u, j + 1)

\* params = match.groupdict(), for a URI that the pattern matches
GroupDict(pattern, uri) == GroupsFrom(Chars(pattern), 1, Chars(uri), 1)

\* ------------------------------------------------------------------- state
VARIABLES
    tools,          \* AgentCLI._tools: name -> metadata
    resources,      \* AgentCLI._resources: the patterns, in registration order
    prompts,        \* AgentCLI._prompts: the names
    platform,       \* platform.system(): "Unix" or "Windows"
    argv,           \* sys.argv[1:]
    doc,            \* the input document of the token "{doc}"
    cwd,            \* the process working directory
    pc,             \* where run() is
    name,           \* _run_tool: name
    args,           \* _run_tool: args
    streaming,      \* _run_tool: "--stream" in args
    session_mode,   \* _run_tool: "--session" in args
    params,         \* _run_tool: the result of _parse_input
    deadline,       \* the timeout deadline: "none", "pending", "fired" or "cancelled"
    deadline_secs,  \* the seconds the deadline was installed with
    fired_at,       \* where run() was when the deadline fired, None while it has not
    exc,            \* the exception being handled
    result,         \* _run_tool: what the tool callable returned
    invoked,        \* how many times a registered callable was invoked
    body_ran,       \* whether the tool's body has started to run
    body_exc,       \* what the tool's body (or generator) raised, NoExc while nothing
    mode,           \* the execution mode _run_tool resolved
    propagating,    \* an exception is leaving _run_tool through its finally block
    gen,            \* the generator: "none", "created", "suspended", "returned", "raised"
    gen_max,        \* the number of events the generator yields at most
    request_id,     \* sample(): str(uuid.uuid4())[:8]
    registered,     \* history: the calls of register(), each <<name, metadata>>, in order
    spc,            \* where the streaming or session driver is
    event,          \* the driver's local: event
    input_data,     \* the session driver's local: input_data
    final,          \* what run_session_tool returned
    final_result,   \* run_streaming_tool: final_result
    stdin_closed,   \* the input channel has reached end of input
    stdout,         \* what was written to stdout, in order
    stderr,         \* what was written to stderr, in order
    reads,          \* the lines the session driver read, in order
    sent,           \* the values sent into the generator, in order
    yielded         \* the events the generator yielded, in order

config == <<tools, resources, prompts, platform, argv, doc, gen_max, request_id, registered>>
locals == <<name, args, streaming, session_mode, params>>
timer == <<deadline, deadline_secs, fired_at>>
toolst == <<result, invoked, body_ran, body_exc, mode>>
driver == <<gen, spc, event, input_data, final, final_result>>
channels == <<stdin_closed, stdout, stderr, reads, sent, yielded>>

vars == <<config, cwd, pc, locals, timer, exc, propagating, toolst, driver, channels>>

NoValue == [t |-> "none", d |-> [value |-> Null]]

\* the state of a process that has not started
Blank ==
    /\ cwd = "/cwd0"
    /\ name = Null
    /\ args = <<>>
    /\ streaming = FALSE
    /\ session_mode = FALSE
    /\ params = NoValue
    /\ deadline = "none"
    /\ deadline_secs = 0
    /\ fired_at = Null
    /\ exc = NoExc
    /\ propagating = FALSE
    /\ result = NoValue
    /\ invoked = 0
    /\ body_ran = FALSE
    /\ body_exc = NoExc
    /\ mode = Null
    /\ gen = "none"
    /\ spc = Null
    /\ event = NoValue
    /\ input_data = NoValue
    /\ final = NoValue
    /\ final_result = NoValue
    /\ stdin_closed = FALSE
    /\ stdout = <<>>
    /\ stderr = <<>>
    /\ reads = <<>>
    /\ sent = <<>>
    /\ yielded = <<>>

\* the state of the process when run() is entered
Fresh == pc = "run" /\ Blank

\* the calls of register() behind a registry whose names were registered once
RegisteredOnce(t) ==
    IF DOMAIN t = {"t1"}
    THEN << <<"t1", t["t1"]>> >>
    ELSE << <<"t1", t["t1"]>>, <<"t2", t["t2"]>> >>

Init ==
    /\ tools \in Registries
    /\ registered = RegisteredOnce(tools)
    /\ resources = <<"/f/{id}">>
    /\ prompts = PromptNames
    /\ request_id = "id1"
    /\ argv \in ArgLists
    /\ doc \in Docs
    /\ platform \in {"Unix", "Windows"}
    /\ gen_max \in 0..MaxYield
    \* inputs that no step reads are kept at one value: the document when no
    \* token holds it, the platform when the document installs no deadline,
    \* the generator when no tool is a generator function
    /\ (~In("{doc}", argv)) => doc = EmptyDoc
    /\ (~TimeoutInRange(doc)) => platform = "Unix"
    /\ (~IsGeneratorFn(tools["t1"])) => gen_max = 0
    /\ Fresh

\* print(json.dumps(v)) or print(text): one value more on stdout
Stdout(v) == stdout' = Push(stdout, v)


\* ------------------------------------------------------------ AgentCLI.run
\* not args or "--help" in args and len(args) == 1
IsHelp(a) == a = <<>> \/ (In("--help", a) /\ Len(a) = 1)

\* run(): no arguments, or a sole --help
RunHelp ==
    /\ pc = "run"
    /\ IsHelp(argv)
    /\ Stdout(Text("help"))
    /\ pc' = "done"
    /\ UNCHANGED <<config, cwd, locals, timer, exc, propagating, toolst, driver,
                   stdin_closed, stderr, reads, sent, yielded>>

\* a dispatcher that looks for the global flags only when the first token names no tool
GlobalFlagUnlessTool(a) ==
    IF a # <<>> /\ a[1] \in DOMAIN tools THEN Null
    ELSE IF In("--discover", a) THEN "--discover"
    ELSE IF In("--tools", a) THEN "--tools"
    ELSE IF In("--resources", a) THEN "--resources"
    ELSE IF In("--prompts", a) THEN "--prompts"
    ELSE Null

\* the first global flag, in the order run() tests them, that args holds
GlobalFlagOf(a) ==
    IF In("--discover", a) THEN "--discover"
    ELSE IF In("--tools", a) THEN "--tools"
    ELSE IF In("--resources", a) THEN "--resources"
    ELSE IF In("--prompts", a) THEN "--prompts"
    ELSE Null

\* _print_discover
DiscoverManifest ==
    Dict([tools |-> {[name |-> n, streaming |-> tools[n].streaming,
                      session_mode |-> tools[n].session_mode] : n \in DOMAIN tools},
          resources |-> resources,
          prompts |-> prompts])

\* _print_tools, _print_resources, _print_prompts
ListManifest(flag) ==
    CASE flag = "--tools" -> Dict([tools |-> DOMAIN tools])
      [] flag = "--resources" -> Dict([resources |-> resources])
      [] flag = "--prompts" -> Dict([prompts |-> prompts])

\* run(): --discover
RunDiscover ==
    /\ pc = "run"
    /\ ~IsHelp(argv)
    /\ GlobalFlagOf(argv) = "--discover"
    /\ Stdout(DiscoverManifest)
    /\ pc' = "done"
    /\ UNCHANGED <<config, cwd, locals, timer, exc, propagating, toolst, driver,
                   stdin_closed, stderr, reads, sent, yielded>>

\* run(): --tools, --resources, --prompts
RunList ==
    /\ pc = "run"
    /\ ~IsHelp(argv)
    /\ GlobalFlagOf(argv) \in {"--tools", "--resources", "--prompts"}
    /\ Stdout(ListManifest(GlobalFlagOf(argv)))
    /\ pc' = "done"
    /\ UNCHANGED <<config, cwd, locals, timer, exc, propagating, toolst, driver,
                   stdin_closed, stderr, reads, sent, yielded>>

\* a loop that keeps the last matching pattern
LastMatch(uri) ==
    IF \E i \in 1..Len(resources) : UriMatches(resources[i], uri)
    THEN CHOOSE i \in 1..Len(resources) :
            /\ UriMatches(resources[i], uri)
            /\ \A j \in (i + 1)..Len(resources) : ~UriMatches(resources[j], uri)
    ELSE 0

\* the first registered pattern that matches the URI, 0 when none does
FirstMatch(uri) ==
    IF \E i \in 1..Len(resources) : UriMatches(resources[i], uri)
    THEN CHOOSE i \in 1..Len(resources) :
            /\ UriMatches(resources[i], uri)
            /\ \A j \in 1..(i - 1) : ~UriMatches(resources[j], uri)
    ELSE 0

\* run(): --resource; _fetch_resource when a URI follows the flag
RunResource ==
    /\ pc = "run"
    /\ ~IsHelp(argv)
    /\ GlobalFlagOf(argv) = Null
    /\ In("--resource", argv)
    /\ LET idx == Index("--resource", argv) IN
       IF idx + 1 < Len(argv)
       THEN LET uri == At(argv, idx + 1)
                m == FirstMatch(uri) IN
            IF m = 0
            THEN /\ Stdout(ResponseError("NOT_FOUND", Msg("No resource matches URI: ", uri),
                                         TRUE, Null))
                 /\ UNCHANGED invoked
            ELSE /\ invoked' = invoked + 1
                 /\ \E raises \in BOOLEAN :
                       IF raises
                       THEN Stdout(ResponseError("INTERNAL", Msg("handler failed", Null),
                                                 FALSE, Null))
                       ELSE Stdout(Dict([resource |-> resources[m]]))
       ELSE UNCHANGED <<stdout, invoked>>
    /\ pc' = "done"
    /\ UNCHANGED <<config, cwd, locals, timer, exc, propagating, result, body_ran, body_exc, mode, driver,
                   stdin_closed, stderr, reads, sent, yielded>>

\* run(): --prompt; _render_prompt when a name and arguments follow the flag
RunPrompt ==
    /\ pc = "run"
    /\ ~IsHelp(argv)
    /\ GlobalFlagOf(argv) = Null
    /\ ~In("--resource", argv)
    /\ In("--prompt", argv)
    /\ LET idx == Index("--prompt", argv) IN
       IF idx + 2 < Len(argv)
       THEN LET pname == At(argv, idx + 1)
                json_args == At(argv, idx + 2) IN
            IF pname \notin prompts
            THEN /\ Stdout(ResponseError("NOT_FOUND", Msg("Unknown prompt: ", pname),
                                         TRUE, Null))
                 /\ UNCHANGED invoked
            ELSE IF ~IsJson(json_args)
            THEN /\ Stdout(ResponseError("INTERNAL", Msg("Expecting value", Null),
                                         FALSE, Null))
                 /\ UNCHANGED invoked
            ELSE /\ invoked' = invoked + 1
                 /\ \E raises \in BOOLEAN :
                       IF raises
                       THEN Stdout(ResponseError("INTERNAL", Msg("prompt failed", Null),
                                                 FALSE, Null))
                       ELSE Stdout(Scalar("rendered prompt"))
       ELSE UNCHANGED <<stdout, invoked>>
    /\ pc' = "done"
    /\ UNCHANGED <<config, cwd, locals, timer, exc, propagating, result, body_ran, body_exc, mode, driver,
                   stdin_closed, stderr, reads, sent, yielded>>

\* run() reaches the tool execution part
IsToolRun(a) ==
    /\ ~IsHelp(a)
    /\ GlobalFlagOf(a) = Null
    /\ ~In("--resource", a)
    /\ ~In("--prompt", a)

\* run(): the first token names no tool and there is not exactly one tool
RunUnknown ==
    /\ pc = "run"
    /\ IsToolRun(argv)
    /\ argv[1] \notin DOMAIN tools
    /\ Cardinality(DOMAIN tools) # 1
    /\ Stdout(ResponseError("NOT_FOUND", Msg("Unknown command: ", argv[1]), TRUE, Null))
    /\ pc' = "done"
    /\ UNCHANGED <<config, cwd, locals, timer, exc, propagating, toolst, driver,
                   stdin_closed, stderr, reads, sent, yielded>>

\* a dispatch that always takes the first token for the command
RunToolDropsFirst ==
    /\ pc = "run"
    /\ IsToolRun(argv)
    /\ argv[1] \in DOMAIN tools \/ Cardinality(DOMAIN tools) = 1
    /\ name' = (IF argv[1] \in DOMAIN tools THEN argv[1]
                                             ELSE CHOOSE n \in DOMAIN tools : TRUE)
    /\ args' = Rest(argv)
    /\ pc' = "tool"
    /\ UNCHANGED <<config, cwd, streaming, session_mode, params, timer, exc, propagating, toolst,
                   driver, channels>>

\* run(): self._run_tool(cmd, tool_args), up to the locals streaming and session_mode
RunTool ==
    /\ pc = "run"
    /\ IsToolRun(argv)
    /\ argv[1] \in DOMAIN tools \/ Cardinality(DOMAIN tools) = 1
    /\ IF argv[1] \in DOMAIN tools
       THEN name' = argv[1] /\ args' = Rest(argv)
       ELSE name' = (CHOOSE n \in DOMAIN tools : TRUE) /\ args' = argv
    /\ pc' = "tool"
    /\ UNCHANGED <<config, cwd, streaming, session_mode, params, timer, exc, propagating, toolst,
                   driver, channels>>

\* ------------------------------------------------- AgentCLI._run_tool: input
\* the dispatcher's own flags, which _parse_input never turns into parameters
DispatcherFlags ==
    {"--stream", "--session", "--sample-via", "--manifest", "--help", "--validate"}

\* the first token that starts with "{", None when there is none (lines 166-171)
FirstBrace(a) ==
    IF \E i \in 1..Len(a) : StartsWithBrace(a[i])
    THEN a[CHOOSE i \in 1..Len(a) :
              StartsWithBrace(a[i]) /\ \A j \in 1..(i - 1) : ~StartsWithBrace(a[j])]
    ELSE Null

\* json.loads of a token that is JSON: the data and what it holds
JsonLoads(tok) ==
    CASE tok = "{doc}" -> [kind |-> "doc", fields |-> doc]
      [] tok = "{inv}" -> [kind |-> "unexpected", fields |-> EmptyDoc]
      [] OTHER -> [kind |-> "empty", fields |-> EmptyDoc]

\* a key that keeps its hyphens
KeepsHyphens(tok) ==
    CASE tok = "--name" -> "name"
      [] tok = "--dry-run" -> "dry-run"
      [] tok = "--dry_run" -> "dry_run"
      [] OTHER -> tok

\* key = arg[2:].replace("-", "_")
FlagKey(tok) ==
    CASE tok = "--name" -> "name"
      [] tok = "--dry-run" -> "dry_run"
      [] tok = "--dry_run" -> "dry_run"
      [] OTHER -> tok

\* json.loads(value), or the value itself when that raises JSONDecodeError
FlagValue(tok) ==
    IF tok = "5" THEN [t |-> "number", v |-> "5"] ELSE [t |-> "str", v |-> tok]

\* the value of a flag that no value follows
FlagTrue == [t |-> "bool", v |-> "true"]

\* data[key] = value
SetItem(data, key, value) ==
    [k \in DOMAIN data \cup {key} |-> IF k = key THEN value ELSE data[k]]

RECURSIVE FlagsFrom(_, _, _)
\* the while loop of _parse_input from position i (1-based) with data so far
FlagsFrom(a, i, data) ==
    IF i > Len(a)
    THEN data
    ELSE IF StartsWithDashes(a[i]) /\ a[i] \notin DispatcherFlags
         THEN IF i + 1 <= Len(a) /\ ~StartsWithDashes(a[i + 1])
              THEN FlagsFrom(a, i + 2, SetItem(data, FlagKey(a[i]), FlagValue(a[i + 1])))
              ELSE FlagsFrom(a, i + 1, SetItem(data, FlagKey(a[i]), FlagTrue))
         ELSE FlagsFrom(a, i + 1, data)

\* the dict that the flag loop builds
FlagData(a) == FlagsFrom(a, 1, <<>>)

\* the flag loop of _parse_input: every --key that is no dispatcher flag
ParseFlags(a) ==
    LET keys == DOMAIN FlagData(a) IN
    IF keys = {}
    THEN [kind |-> "empty", fields |-> EmptyDoc]
    ELSE [kind |-> "unexpected", fields |-> EmptyDoc]

\* a validated input object
ToolInput(obj) == [t |-> "ToolInput", d |-> obj]

\* a test that takes every parsed input for an input object
AnyParsedInput(v) == v.t \in {"ToolInput", "dict"}

\* isinstance(params, ToolInput)
IsToolInput(v) == v.t = "ToolInput"

\* input_model(**data): the model accepts the document and empty data, and
\* rejects every other data (extra="forbid")
ModelAccepts(data) == data.kind \in {"doc", "empty"}

\* the object the model builds: the document's fields, or every declared
\* field at its default
ModelBuild(data) ==
    IF data.kind = "empty" THEN ToolInput(DefaultsOf(doc)) ELSE ToolInput(data.fields)

\* _parse_input: [ok, value] or [ok, error]
ParseInput(meta, a, json_input) ==
    LET data == IF json_input # Null THEN JsonLoads(json_input) ELSE ParseFlags(a) IN
    IF json_input # Null /\ ~IsJson(json_input)
    THEN [ok |-> FALSE, error |-> "JSONDecodeError", value |-> NoValue]
    ELSE IF meta.input_model
         THEN IF ModelAccepts(data)
              THEN [ok |-> TRUE, error |-> Null, value |-> ModelBuild(data)]
              ELSE [ok |-> FALSE, error |-> "ValidationError", value |-> NoValue]
         ELSE [ok |-> TRUE, error |-> Null, value |-> Dict(data)]

\* what an overridden pre_validate may raise
PreValidateToolError == ToolError("PRECONDITION", Msg("precondition failed", Null), Null, "fix it")
PreValidateException == OtherException(Msg("disk error", Null))
PreValidateOutcomes == {"ok", "ToolError", "Exception"}

\* a validation that accepts everything
AlwaysValid(meta, json_input, pv) == Dict([valid |-> TRUE])

\* _validate_input
ValidateInput(meta, json_input, pv) ==
    IF json_input # "{}" /\ ~IsJson(json_input)
    THEN Dict([valid |-> FALSE, errors |-> <<[message |-> Msg("Expecting value", Null)]>>])
    ELSE IF ~meta.input_model
    THEN Dict([valid |-> TRUE])
    ELSE IF ~ModelAccepts(JsonLoads(json_input))
    THEN Dict([valid |-> FALSE, errors |-> <<[type |-> "extra_forbidden"]>>])
    ELSE CASE pv = "ok" -> Dict([valid |-> TRUE])
           [] pv = "ToolError" ->
                Dict([valid |-> FALSE,
                      errors |-> <<[code |-> PreValidateToolError.code,
                                    message |-> PreValidateToolError.message]>>])
           [] pv = "Exception" ->
                Dict([valid |-> FALSE, errors |-> <<[message |-> PreValidateException.message]>>])

Meta == tools[name]

\* _run_tool: --manifest
ToolManifest ==
    /\ pc = "tool"
    /\ In("--manifest", args)
    /\ Stdout(Dict([manifest |-> name]))
    /\ pc' = "done"
    /\ UNCHANGED <<config, cwd, locals, timer, exc, propagating, toolst, driver,
                   stdin_closed, stderr, reads, sent, yielded>>

\* a --help that is answered whether or not --manifest is given
ToolHelpFirst ==
    /\ pc = "tool"
    /\ In("--help", args)
    /\ Stdout(Text("tool help"))
    /\ pc' = "done"
    /\ UNCHANGED <<config, cwd, locals, timer, exc, propagating, toolst, driver,
                   stdin_closed, stderr, reads, sent, yielded>>

\* _run_tool: --help
ToolHelp ==
    /\ pc = "tool"
    /\ ~In("--manifest", args)
    /\ In("--help", args)
    /\ Stdout(Text("tool help"))
    /\ pc' = "done"
    /\ UNCHANGED <<config, cwd, locals, timer, exc, propagating, toolst, driver,
                   stdin_closed, stderr, reads, sent, yielded>>

\* _run_tool: --validate
ToolValidate ==
    /\ pc = "tool"
    /\ ~In("--manifest", args)
    /\ ~In("--help", args)
    /\ In("--validate", args)
    /\ LET idx == Index("--validate", args)
           json_input == IF idx + 1 < Len(args) THEN At(args, idx + 1) ELSE FirstBrace(args)
           tok == IF json_input # Null THEN json_input ELSE "{}"
           runs_hook == Meta.input_model /\ (tok = "{}" \/ IsJson(tok))
                        /\ ModelAccepts(JsonLoads(tok)) IN
       \E pv \in IF runs_hook THEN PreValidateOutcomes ELSE {"ok"} :
          Stdout(ValidateInput(Meta, tok, pv))
    /\ streaming' = In("--stream", args)
    /\ session_mode' = In("--session", args)
    /\ pc' = "done"
    /\ UNCHANGED <<config, cwd, name, args, params, timer, exc, propagating, toolst, driver,
                   stdin_closed, stderr, reads, sent, yielded>>

\* _run_tool: the locals streaming and session_mode, then _parse_input (lines 156-197)
ToolParse ==
    /\ pc = "tool"
    /\ ~In("--manifest", args)
    /\ ~In("--help", args)
    /\ ~In("--validate", args)
    /\ streaming' = In("--stream", args)
    /\ session_mode' = In("--session", args)
    /\ LET parsed == ParseInput(Meta, args, FirstBrace(args)) IN
       IF parsed.ok
       THEN /\ params' = parsed.value
            /\ pc' = IF IsToolInput(parsed.value) THEN "pre_validate" ELSE "invoke"
            /\ UNCHANGED stdout
       ELSE /\ Stdout(ResponseError("INVALID_INPUT",
                                    IF parsed.error = "JSONDecodeError"
                                    THEN Msg("Invalid JSON: ", "Expecting value")
                                    ELSE Msg("validation error", Null),
                                    TRUE, Null))
            /\ pc' = "done"
            /\ UNCHANGED params
    /\ UNCHANGED <<config, cwd, name, args, timer, exc, propagating, toolst, driver,
                   stdin_closed, stderr, reads, sent, yielded>>

\* --------------------------------------- AgentCLI._run_tool: reserved fields
\* hasattr(input_obj, field)
HasAttr(obj, field) == field \in obj.declares

\* hasattr(input_obj, "working_dir") and input_obj.working_dir
WorkingDirSet(obj) == HasAttr(obj, "working_dir") /\ obj.working_dir # Null /\ obj.working_dir # ""

\* hasattr(input_obj, "timeout") and input_obj.timeout
TimeoutSet(obj) == HasAttr(obj, "timeout") /\ ~obj.timeout_none /\ obj.timeout # 0

\* a dispatcher that ignores dry_run
NeverDryRun(obj) == FALSE

\* hasattr(input_obj, "dry_run") and input_obj.dry_run
DryRunSet(obj) == HasAttr(obj, "dry_run") /\ obj.dry_run

\* the ToolError of the timeout range check (lines 228-239), NoExc in range
TimeoutRangeError(obj) ==
    IF obj.timeout <= 0
    THEN ToolError("INVALID_INPUT", Msg("timeout must be positive", Null), "True", Null)
    ELSE IF obj.timeout > MaxTimeout
    THEN ToolError("INVALID_INPUT", Msg("timeout exceeds maximum (600 seconds)", Null),
                   "True", Null)
    ELSE NoExc

\* the ToolError the Unix alarm handler raises (line 42)
TimeoutError == ToolError("TIMEOUT", Msg("Operation timed out", Null), Null, Null)

\* ToolInput.to_log_safe: the object's own projection of its fields
ToLogSafe(obj) == Dict([log_safe |-> obj.declares])

\* _run_tool: input_obj.pre_validate() (lines 204-209)
PreValidate ==
    /\ pc = "pre_validate"
    /\ \E pv \in PreValidateOutcomes :
          CASE pv = "ok" ->
                 /\ pc' = "working_dir"
                 /\ UNCHANGED <<stdout, exc>>
            [] pv = "ToolError" ->
                 /\ Stdout(ToResponse(PreValidateToolError))
                 /\ pc' = "done"
                 /\ UNCHANGED exc
            [] pv = "Exception" ->
                 /\ exc' = PreValidateException
                 /\ pc' = "escaped"
                 /\ UNCHANGED stdout
    /\ UNCHANGED <<config, cwd, locals, timer, propagating, toolst, driver,
                   stdin_closed, stderr, reads, sent, yielded>>

\* _run_tool: working_dir (lines 211-223)
WorkingDir ==
    /\ pc = "working_dir"
    /\ LET obj == params.d IN
       IF WorkingDirSet(obj)
       THEN IF ~IsDir(obj.working_dir)
            THEN /\ Stdout(ToResponse(ToolError("INVALID_PATH",
                                                Msg("Directory not found: ", obj.working_dir),
                                                "True", Null)))
                 /\ pc' = "done"
                 /\ UNCHANGED cwd
            ELSE /\ cwd' = obj.working_dir
                 /\ pc' = "timeout"
                 /\ UNCHANGED stdout
       ELSE /\ pc' = "timeout"
            /\ UNCHANGED <<cwd, stdout>>
    /\ UNCHANGED <<config, locals, timer, exc, propagating, toolst, driver,
                   stdin_closed, stderr, reads, sent, yielded>>

\* _run_tool: timeout (lines 225-243); _setup_timeout installs the deadline
TimeoutCheck ==
    /\ pc = "timeout"
    /\ LET obj == params.d IN
       IF TimeoutSet(obj)
       THEN IF TimeoutRangeError(obj).type # "none"
            THEN /\ Stdout(ToResponse(TimeoutRangeError(obj)))
                 /\ pc' = "done"
                 /\ UNCHANGED timer
            ELSE /\ deadline' = "pending"
                 /\ deadline_secs' = obj.timeout
                 /\ pc' = "timeout_set"
                 /\ UNCHANGED <<fired_at, stdout>>
       ELSE /\ pc' = "dry_run"
            /\ UNCHANGED <<timer, stdout>>
    /\ UNCHANGED <<config, cwd, locals, exc, propagating, toolst, driver,
                   stdin_closed, stderr, reads, sent, yielded>>

\* _run_tool: _setup_timeout has returned; the try statement of lines 226-243 ends
TimeoutInstalled ==
    /\ pc = "timeout_set"
    /\ pc' = "dry_run"
    /\ UNCHANGED <<config, cwd, locals, timer, exc, propagating, toolst, driver, channels>>

\* _run_tool: dry_run (lines 245-251)
DryRun ==
    /\ pc = "dry_run"
    /\ LET obj == params.d IN
       IF DryRunSet(obj)
       THEN /\ Stdout(ResponseSuccess(Dict([dry_run |-> TRUE, would_execute |-> ToLogSafe(obj)])))
            /\ pc' = "done"
       ELSE /\ pc' = "invoke"
            /\ UNCHANGED stdout
    /\ UNCHANGED <<config, cwd, locals, timer, exc, propagating, toolst, driver,
                   stdin_closed, stderr, reads, sent, yielded>>

\* ------------------------------------------- AgentCLI._run_tool: execution
\* what the body of a tool may return
ReturnValues ==
    {Dict([sum |-> 8]), Dict([status |-> "partial", result |-> "r"]), Scalar(42), Unserialisable}

\* what the body of a tool may raise
BodyToolError == ToolError("NOT_FOUND", Msg("no such item", Null), "False", "check the id")
BodyException == OtherException(Msg("boom", Null))
BodyErrors == {BodyToolError, BodyException}

\* json.dumps(v) succeeds
Serialisable(v) == v.t # "object"

\* a rendering that wraps every return value in a success envelope
AlwaysWrap(r) == ResponseSuccess(r)

\* the value the Direct branch prints (lines 283-290)
DirectEnvelope(r) ==
    IF IsDict(r)
    THEN IF HasKey(r, "status") THEN r ELSE ResponseSuccess(r)
    ELSE ResponseSuccess(Dict([result |-> r]))

\* the ToolError of a declared mode whose flag is missing (lines 266-271, 275-280)
FlagRequired(flag) ==
    ToolError("INVALID_INPUT", Msg("This tool requires flag ", flag), "True",
              IF flag = "--stream" THEN "Add --stream to the command"
              ELSE "Add --session to the command")

\* a mode selection that tests session_mode before streaming
SessionBeforeStreaming(meta) ==
    IF meta.session_mode THEN "Session"
    ELSE IF meta.streaming THEN "Streaming"
    ELSE "Direct"

\* a mode selection that lets the flags of the invocation choose
ModeByFlags(meta) ==
    IF streaming THEN "Streaming"
    ELSE IF session_mode THEN "Session"
    ELSE "Direct"

\* the mode the metadata selects (lines 264, 273, 283)
DeclaredMode(meta) ==
    IF meta.streaming THEN "Streaming"
    ELSE IF meta.session_mode THEN "Session"
    ELSE "Direct"

\* _run_tool: the call of the tool callable (lines 255-260)
Invoke ==
    /\ pc = "invoke"
    /\ invoked' = invoked + 1
    /\ IF IsGeneratorFn(Meta)
       THEN /\ gen' = "created"
            /\ result' = [t |-> "generator", d |-> [value |-> name]]
            /\ pc' = "mode"
            /\ UNCHANGED body_ran
       ELSE /\ body_ran' = TRUE
            /\ pc' = "body"
            /\ UNCHANGED <<gen, result>>
    /\ UNCHANGED <<config, cwd, locals, timer, exc, propagating, body_exc, mode,
                   gen_max, spc, event, input_data, final, final_result, channels>>

\* the body of a plain tool returns or raises
Body ==
    /\ pc = "body"
    /\ \/ \E r \in ReturnValues :
             /\ result' = r
             /\ pc' = "mode"
             /\ UNCHANGED <<exc, body_exc>>
       \/ \E e \in BodyErrors :
             /\ exc' = e
             /\ body_exc' = e
             /\ pc' = "except"
             /\ UNCHANGED result
    /\ UNCHANGED <<config, cwd, locals, timer, propagating, invoked, body_ran, mode,
                   driver, channels>>

\* _run_tool: mode resolution and the Direct rendering (lines 264-290)
ModeResolve ==
    /\ pc = "mode"
    /\ LET m == DeclaredMode(Meta) IN
       CASE m = "Streaming" /\ ~streaming ->
              /\ exc' = FlagRequired("--stream")
              /\ mode' = "Rejected"
              /\ pc' = "except"
              /\ UNCHANGED <<spc, stdout>>
         [] m = "Streaming" /\ streaming ->
              /\ mode' = m
              /\ pc' = "streaming"
              /\ spc' = "next"
              /\ UNCHANGED <<exc, stdout>>
         [] m = "Session" /\ ~session_mode ->
              /\ exc' = FlagRequired("--session")
              /\ mode' = "Rejected"
              /\ pc' = "except"
              /\ UNCHANGED <<spc, stdout>>
         [] m = "Session" /\ session_mode ->
              /\ mode' = m
              /\ pc' = "session"
              /\ spc' = "first"
              /\ UNCHANGED <<exc, stdout>>
         [] m = "Direct" /\ Serialisable(result) ->
              /\ mode' = m
              /\ Stdout(DirectEnvelope(result))
              /\ pc' = "finally"
              /\ UNCHANGED <<exc, spc>>
         [] m = "Direct" /\ ~Serialisable(result) ->
              /\ mode' = m
              /\ exc' = OtherException(Msg("Object is not JSON serializable", Null))
              /\ pc' = "except"
              /\ UNCHANGED <<spc, stdout>>
    /\ UNCHANGED <<config, cwd, locals, timer, propagating, result, invoked, body_ran,
                   body_exc, gen, event, input_data, final, final_result,
                   stdin_closed, stderr, reads, sent, yielded>>

\* a handler that renders every exception as INTERNAL
AlwaysInternal(e) == ResponseError("INTERNAL", e.message, FALSE, Null)

\* the envelope an except clause of _run_tool prints (lines 292-299)
HandlerEnvelope(e) ==
    IF e.type = "ToolError"
    THEN ToResponse(e)
    ELSE ResponseError("INTERNAL", e.message, FALSE, Null)

\* _run_tool: except ToolError / except Exception (lines 292-299)
Except ==
    /\ pc = "except"
    /\ Stdout(HandlerEnvelope(exc))
    /\ pc' = "finally"
    /\ UNCHANGED <<config, cwd, locals, timer, exc, propagating, toolst, driver,
                   stdin_closed, stderr, reads, sent, yielded>>

\* the deadline after the finally block (lines 300-306): timer.cancel() on
\* Windows, signal.alarm(0) elsewhere
Cancelled(d) == IF d = "pending" THEN "cancelled" ELSE d

\* _run_tool: finally (lines 300-306), then the return or the propagation
Finally ==
    /\ pc = "finally"
    /\ deadline' = Cancelled(deadline)
    /\ pc' = IF propagating THEN "escaped" ELSE "done"
    /\ UNCHANGED <<config, cwd, locals, deadline_secs, fired_at, exc, propagating, toolst,
                   driver, channels>>

\* ------------------------------------------------------------ the generator
\* gen_max of a generator that never ends by itself
Endless == 0 - 1

\* the generator has an event left to yield
CanYield == gen_max = Endless \/ Len(yielded) < gen_max

\* the n-th event the generator yields
Event(ty) == Dict([type |-> ty, seq |-> Len(yielded) + 1])

EventType(e) == e.d.type

\* the generator is resumed and yields an event of type ty
GenYields(ty) ==
    /\ CanYield
    /\ event' = Event(ty)
    /\ yielded' = Push(yielded, Event(ty))
    /\ gen' = "suspended"
    /\ body_ran' = TRUE
    /\ UNCHANGED body_exc

\* the generator is resumed and returns: StopIteration
GenReturns ==
    /\ gen' = "returned"
    /\ body_ran' = TRUE
    /\ UNCHANGED <<event, yielded, body_exc>>

\* the generator is resumed and raises e
GenRaises(e) ==
    /\ gen' = "raised"
    /\ body_ran' = TRUE
    /\ body_exc' = e
    /\ UNCHANGED <<event, yielded>>

\* ------------------------------------------------- streaming.run_streaming_tool
StreamTypes == {"progress", "result"}

\* a driver that ends the stream quietly when the producer raises
StreamNextSwallows ==
    /\ pc = "streaming"
    /\ spc = "next"
    /\ \/ \E ty \in StreamTypes :
             /\ GenYields(ty)
             /\ spc' = "emit"
             /\ UNCHANGED pc
       \/ /\ GenReturns
          /\ spc' = Null
          /\ pc' = "finally"
       \/ \E e \in BodyErrors :
             /\ GenRaises(e)
             /\ spc' = Null
             /\ pc' = "finally"
    /\ UNCHANGED <<config, cwd, locals, timer, exc, propagating, result, invoked, mode,
                   input_data, final, final_result, stdin_closed, stdout, stderr, reads, sent>>

\* "for event in gen": the producer is pulled
StreamNext ==
    /\ pc = "streaming"
    /\ spc = "next"
    /\ \/ \E ty \in StreamTypes :
             /\ GenYields(ty)
             /\ spc' = "emit"
             /\ UNCHANGED <<pc, exc>>
       \/ /\ GenReturns
          /\ spc' = Null
          /\ pc' = "finally"
          /\ UNCHANGED exc
       \/ \E e \in BodyErrors :
             /\ GenRaises(e)
             /\ spc' = Null
             /\ exc' = e
             /\ pc' = "except"
    /\ UNCHANGED <<config, cwd, locals, timer, propagating, result, invoked, mode,
                   input_data, final, final_result, stdin_closed, stdout, stderr, reads, sent>>

\* a driver that pulls the next event without writing the one it holds
StreamEmitSkips ==
    /\ pc = "streaming"
    /\ spc = "emit"
    /\ spc' = "next"
    /\ UNCHANGED <<config, cwd, pc, locals, timer, exc, propagating, toolst,
                   gen, event, input_data, final, final_result, channels>>

\* a driver that keeps the first event of type result
StreamEmitKeepsFirst ==
    /\ pc = "streaming"
    /\ spc = "emit"
    /\ Stdout(event)
    /\ final_result' = IF EventType(event) = "result" /\ final_result.t = "none"
                        THEN event ELSE final_result
    /\ spc' = "next"
    /\ UNCHANGED <<config, cwd, pc, locals, timer, exc, propagating, toolst,
                   gen, event, input_data, final, stdin_closed, stderr, reads, sent, yielded>>

\* emit_stream(event), and final_result for an event of type result
StreamEmit ==
    /\ pc = "streaming"
    /\ spc = "emit"
    /\ Stdout(event)
    /\ final_result' = IF EventType(event) = "result" THEN event ELSE final_result
    /\ spc' = "next"
    /\ UNCHANGED <<config, cwd, pc, locals, timer, exc, propagating, toolst,
                   gen, event, input_data, final, stdin_closed, stderr, reads, sent, yielded>>

\* ------------------------------------------------------ session.run_session_tool
SessionTypes == {"awaiting_input", "session_end"}

\* what sys.stdin.readline() returns: a line with its newline, or "" at end of input
EOF == ""
Lines == {"{a}\n", "{b}\n", "\n", "garbage\n"}

\* line.strip()
Strip(line) ==
    CASE line = "{a}\n" -> "{a}"
      [] line = "{b}\n" -> "{b}"
      [] line = "garbage\n" -> "garbage"
      [] OTHER -> ""

Quit == Dict([action |-> "quit"])

\* json.loads of a stripped line succeeds
IsJsonLine(text) == text \in {"{a}", "{b}"}

\* json.loads of a stripped line
LineValue(text) == IF text = "{a}" THEN Dict([action |-> "a"]) ELSE Dict([action |-> "b"])

\* receive_session_input on a line read: [ok, value]
ReceiveSessionInput(line) ==
    IF line = EOF
    THEN [ok |-> TRUE, value |-> Quit]
    ELSE IF IsJsonLine(Strip(line))
         THEN [ok |-> TRUE, value |-> LineValue(Strip(line))]
         ELSE [ok |-> FALSE, value |-> NoValue]

\* the status objects run_session_tool returns (lines 42 and 45)
SessionSuccess == Dict([status |-> "success"])
SessionError(message) ==
    Dict([status |-> "error",
          error |-> [code |-> "INTERNAL", message |-> message, recoverable |-> FALSE]])

\* str(StopIteration())
EmptyMessage == Msg("", Null)

\* run_session_tool returns v
SessionReturns(v) ==
    /\ final' = v
    /\ spc' = Null
    /\ pc' = "session_done"

\* event = next(gen) (line 27)
SessionFirst ==
    /\ pc = "session"
    /\ spc = "first"
    /\ \/ \E ty \in SessionTypes :
             /\ GenYields(ty)
             /\ spc' = "emit_first"
             /\ UNCHANGED <<pc, final>>
       \/ /\ GenReturns
          /\ SessionReturns(SessionError(EmptyMessage))
       \/ \E e \in BodyErrors :
             /\ GenRaises(e)
             /\ SessionReturns(SessionError(e.message))
    /\ UNCHANGED <<config, cwd, locals, timer, exc, propagating, result, invoked, mode,
                   input_data, final_result, stdin_closed, stdout, stderr, reads, sent>>

\* a driver that goes on to read input without emitting the first event
SessionReadsFirst ==
    /\ pc = "session"
    /\ spc = "emit_first"
    /\ spc' = "recv"
    /\ UNCHANGED <<config, cwd, pc, locals, timer, exc, propagating, toolst,
                   gen, event, input_data, final, final_result, channels>>

\* emit_session(event) of the first event (line 28)
SessionEmitFirst ==
    /\ pc = "session"
    /\ spc = "emit_first"
    /\ Stdout(event)
    /\ spc' = "recv"
    /\ UNCHANGED <<config, cwd, pc, locals, timer, exc, propagating, toolst,
                   gen, event, input_data, final, final_result,
                   stdin_closed, stderr, reads, sent, yielded>>

\* a driver that skips a line that is not JSON and reads the next one
SessionRecvSkips ==
    /\ pc = "session"
    /\ spc = "recv"
    /\ \E line \in IF stdin_closed THEN {EOF} ELSE Lines \cup {EOF} :
          /\ stdin_closed' = (line = EOF)
          /\ reads' = Push(reads, line)
          /\ IF ReceiveSessionInput(line).ok
             THEN /\ input_data' = ReceiveSessionInput(line).value
                  /\ spc' = "send"
             ELSE UNCHANGED <<input_data, spc>>
    /\ UNCHANGED <<config, cwd, pc, locals, timer, exc, propagating, toolst,
                   gen, event, final, final_result, stdout, stderr, sent, yielded>>

\* input_data = receive_session_input() (line 32)
SessionRecv ==
    /\ pc = "session"
    /\ spc = "recv"
    /\ \E line \in IF stdin_closed THEN {EOF} ELSE Lines \cup {EOF} :
          /\ stdin_closed' = (line = EOF)
          /\ reads' = Push(reads, line)
          /\ IF ReceiveSessionInput(line).ok
             THEN /\ input_data' = ReceiveSessionInput(line).value
                  /\ spc' = "send"
                  /\ UNCHANGED <<pc, final>>
             ELSE /\ SessionReturns(SessionError(Msg("Expecting value", Null)))
                  /\ UNCHANGED input_data
    /\ UNCHANGED <<config, cwd, locals, timer, exc, propagating, toolst,
                   gen, event, final_result, stdout, stderr, sent, yielded>>

\* event = gen.send(input_data) (line 34), StopIteration included (line 39)
SessionSend ==
    /\ pc = "session"
    /\ spc = "send"
    /\ sent' = Push(sent, input_data)
    /\ \/ \E ty \in SessionTypes :
             /\ GenYields(ty)
             /\ spc' = "emit"
             /\ UNCHANGED <<pc, final>>
       \/ /\ GenReturns
          /\ SessionReturns(SessionSuccess)
       \/ \E e \in BodyErrors :
             /\ GenRaises(e)
             /\ SessionReturns(SessionError(e.message))
    /\ UNCHANGED <<config, cwd, locals, timer, exc, propagating, result, invoked, mode,
                   input_data, final_result, stdin_closed, stdout, stderr, reads>>

\* emit_session(event) and the session_end test (lines 35-38)
SessionEmit ==
    /\ pc = "session"
    /\ spc = "emit"
    /\ Stdout(event)
    /\ IF EventType(event) = "session_end"
       THEN SessionReturns(SessionSuccess)
       ELSE /\ spc' = "recv"
            /\ UNCHANGED <<pc, final>>
    /\ UNCHANGED <<config, cwd, locals, timer, exc, propagating, toolst,
                   gen, event, input_data, final_result,
                   stdin_closed, stderr, reads, sent, yielded>>

\* _run_tool: print(json.dumps(final)) (line 282)
SessionPrintFinal ==
    /\ pc = "session_done"
    /\ Stdout(final)
    /\ pc' = "finally"
    /\ UNCHANGED <<config, cwd, locals, timer, exc, propagating, toolst, driver,
                   stdin_closed, stderr, reads, sent, yielded>>

\* ------------------------------------------------------------- the deadline
\* where _run_tool can be when a pending deadline fires
Interruptible ==
    {"timeout_set", "dry_run", "invoke", "body", "mode", "streaming", "session",
     "session_done", "except", "finally"}

\* the try statement that encloses position p: that of lines 226-243, that of
\* run_session_tool (session.py 25-45), that of lines 254-299, or none
Enclosing(p) ==
    CASE p = "timeout_set" -> "reserved"
      [] p = "session" -> "session"
      [] p \in {"invoke", "body", "mode", "streaming", "session_done"} -> "execute"
      [] p = "except" -> "handler"
      [] OTHER -> "none"

\* Unix: SIGALRM is delivered and timeout_handler raises ToolError(TIMEOUT)
\* wherever the main thread is
AlarmFires ==
    /\ platform = "Unix"
    /\ deadline = "pending"
    /\ pc \in Interruptible
    /\ deadline' = "fired"
    /\ fired_at' = pc
    /\ LET site == Enclosing(pc) IN
       CASE site = "reserved" ->
              /\ Stdout(ToResponse(TimeoutError))
              /\ pc' = "done"
              /\ UNCHANGED <<exc, propagating, final, spc>>
         [] site = "session" ->
              /\ SessionReturns(SessionError(TimeoutError.message))
              /\ UNCHANGED <<exc, propagating, stdout>>
         [] site = "execute" ->
              /\ exc' = TimeoutError
              /\ pc' = "except"
              /\ spc' = Null
              /\ UNCHANGED <<propagating, final, stdout>>
         [] site = "handler" ->
              /\ exc' = TimeoutError
              /\ propagating' = TRUE
              /\ pc' = "finally"
              /\ UNCHANGED <<final, spc, stdout>>
         [] site = "none" ->
              /\ exc' = TimeoutError
              /\ pc' = "escaped"
              /\ UNCHANGED <<propagating, final, spc, stdout>>
    /\ UNCHANGED <<config, cwd, locals, deadline_secs, toolst, gen, event, input_data,
                   final_result, stdin_closed, stderr, reads, sent, yielded>>

\* Windows: the timer thread prints the TIMEOUT envelope to stderr and calls os._exit(1)
TimerFires ==
    /\ platform = "Windows"
    /\ deadline = "pending"
    /\ pc \in Interruptible
    /\ deadline' = "fired"
    /\ fired_at' = pc
    /\ stderr' = Push(stderr, ResponseError("TIMEOUT", Msg("Operation timed out", Null),
                                            FALSE, Null))
    /\ pc' = "exited"
    /\ UNCHANGED <<config, cwd, locals, deadline_secs, exc, propagating, toolst, driver,
                   stdin_closed, stdout, reads, sent, yielded>>

\* ------------------------------------------------------------ specification
Next ==
    \/ RunHelp
    \/ RunDiscover
    \/ RunList
    \/ RunResource
    \/ RunPrompt
    \/ RunUnknown
    \/ RunTool
    \/ ToolManifest
    \/ ToolHelp
    \/ ToolValidate
    \/ ToolParse
    \/ PreValidate
    \/ WorkingDir
    \/ TimeoutCheck
    \/ TimeoutInstalled
    \/ DryRun
    \/ Invoke
    \/ Body
    \/ ModeResolve
    \/ Except
    \/ Finally
    \/ StreamNext
    \/ StreamEmit
    \/ SessionFirst
    \/ SessionEmitFirst
    \/ SessionRecv
    \/ SessionSend
    \/ SessionEmit
    \/ SessionPrintFinal
    \/ AlarmFires
    \/ TimerFires

Spec == Init /\ [][Next]_vars

\* ------------------------------------------------------------------ claims
\* run() is over: it returned, an exception left it, or the process was ended
Terminal == {"done", "escaped", "exited"}

ModeFlags == {"--stream", "--session"}

\* the envelope a missing mode flag is answered with
FlagEnvelopeFor(v, flag) ==
    /\ IsErrorEnvelope(v)
    /\ v.d.error.code = "INVALID_INPUT"
    /\ v.d.error.recoverable = TRUE
    /\ "suggestion" \in DOMAIN v.d.error
    /\ v.d.error.suggestion = (IF flag = "--stream" THEN "Add --stream to the command"
                                                   ELSE "Add --session to the command")

SelectsModeOf(flag) ==
    /\ name # Null
    /\ IF flag = "--stream" THEN Meta.streaming
                            ELSE Meta.session_mode /\ ~Meta.streaming

ErrorEnvelopeOf(v, code, recoverable) ==
    /\ IsErrorEnvelope(v)
    /\ v.d.error.code = code
    /\ v.d.error.recoverable = recoverable

\* C2 as stated: once run() is over, by return or by an exception, no deadline
\* that was installed is still pending.
C2_Original == pc \in {"done", "escaped"} => deadline # "pending"

\* C3 as stated, where the deadline is the SIGALRM alarm: when the deadline
\* fires inside the tool body, inside a driver or while the session driver
\* reads input, stdout has received a TIMEOUT envelope with recoverable false
\* by the time run() is over.
C3_Original ==
    ( /\ platform = "Unix"
      /\ fired_at \in {"body", "streaming", "session"}
      /\ pc \in Terminal )
    => \E i \in 1..Len(stdout) : ErrorEnvelopeOf(stdout[i], "TIMEOUT", FALSE)

\* C4 as stated: an input object that declares timeout and holds an integer
\* out of 1..600 never gets a deadline and its tool is never invoked; one that
\* holds an integer in 1..600 has a deadline of that many seconds installed
\* when its tool is invoked.
C4_Original ==
    ( /\ IsToolInput(params)
      /\ HasAttr(params.d, "timeout")
      /\ ~params.d.timeout_none )
    => /\ params.d.timeout \notin 1..MaxTimeout => deadline = "none" /\ invoked = 0
       /\ (params.d.timeout \in 1..MaxTimeout /\ invoked > 0)
              => deadline # "none" /\ deadline_secs = params.d.timeout

\* C5 as stated: no exception leaves run() while a tool is dispatched.
C5_Original == name # Null => pc # "escaped"

\* the invocations C7 is about: everything but human help, streaming runs and
\* session runs
OneValueInvocation ==
    /\ ~IsHelp(argv)
    /\ name # Null => DeclaredMode(Meta) = "Direct" /\ ~In("--help", args)

\* C7 as stated: such an invocation has written exactly one JSON value to
\* stdout when it is over.
C7_Original ==
    (pc \in Terminal /\ OneValueInvocation)
    => Len(stdout) = 1 /\ stdout[1].t # "text"

\* v carries the code, message, recoverable flag and suggestion of e
OwnEnvelope(v, e) ==
    /\ ErrorEnvelopeOf(v, e.code, e.recoverable)
    /\ v.d.error.message = e.message
    /\ IF e.suggestion = Null
       THEN "suggestion" \notin DOMAIN v.d.error
       ELSE "suggestion" \in DOMAIN v.d.error /\ v.d.error.suggestion = e.suggestion

\* C6 as stated: when the tool body, the producer or the session generator has
\* raised a ToolError, stdout holds an envelope with that error's own code,
\* message, recoverable flag and suggestion once run() is over.
C6_Original ==
    (body_exc.type = "ToolError" /\ pc \in Terminal)
    => \E i \in 1..Len(stdout) : OwnEnvelope(stdout[i], body_exc)

\* C6: when no timeout deadline fires during the invocation, a ToolError
\* raised by a tool body is the last value on stdout, as an error envelope that
\* carries that error's own code, message, recoverable flag and suggestion in
\* the direct and streaming modes; raised by a session generator it is
\* rendered as the session's final status instead, an error with code
\* INTERNAL, recoverable false, the error's message and no suggestion.
C6_ToolErrorRendered ==
    (body_exc.type = "ToolError" /\ deadline # "fired" /\ pc \in Terminal)
    => /\ pc = "done"
       /\ stdout # <<>>
       /\ LET v == stdout[Len(stdout)] IN
          IF mode = "Session"
          THEN /\ ErrorEnvelopeOf(v, "INTERNAL", FALSE)
               /\ v.d.error.message = body_exc.message
               /\ "suggestion" \notin DOMAIN v.d.error
               /\ \A i \in 1..Len(stdout) : ~OwnEnvelope(stdout[i], body_exc)
          ELSE OwnEnvelope(v, body_exc)

\* a session generator raised a ToolError after its first event was answered
C6_Witness ==
    /\ pc = "done"
    /\ mode = "Session"
    /\ body_exc.type = "ToolError"
    /\ body_exc.suggestion # Null
    /\ deadline # "fired"
    /\ Len(yielded) = 1
    /\ Len(sent) = 1
    /\ Len(stdout) = 2
    /\ ErrorEnvelopeOf(stdout[2], "INTERNAL", FALSE)

\* the value the driver is to send for a line read
ValueOfLine(line) ==
    CASE line = "" -> Dict([action |-> "quit"])
      [] line = "{a}\n" -> Dict([action |-> "a"])
      [] line = "{b}\n" -> Dict([action |-> "b"])
      [] OTHER -> NoValue

\* C8: while the session driver runs, the first event is on stdout before any
\* line is read; every line read is sent once before the next line is read, and
\* at most one event is emitted per line read; at each read every earlier line
\* has been sent and answered by one emitted event; the k-th value sent is the
\* value of the k-th line read; stdout holds the events in the order the
\* generator yielded them.
C8_Alternation ==
    /\ mode = "Session" =>
          /\ Len(sent) <= Len(reads)
          /\ \A k \in 1..Len(sent) : sent[k] = ValueOfLine(reads[k])
    /\ pc = "session" =>
          /\ Len(reads) <= Len(sent) + 1
          /\ reads # <<>> => stdout # <<>>
          /\ Len(stdout) <= Len(yielded)
          /\ Len(yielded) <= Len(stdout) + 1
          /\ Len(stdout) <= Len(reads) + 1
          /\ \A i \in 1..Len(stdout) : stdout[i] = yielded[i]
          /\ spc = "recv" =>
                /\ Len(sent) = Len(reads)
                /\ Len(yielded) = Len(stdout)
                /\ Len(stdout) = Len(reads) + 1

\* the driver is about to read a third line after two lines and three events
C8_Witness ==
    /\ pc = "session"
    /\ spc = "recv"
    /\ Len(reads) = 2
    /\ reads[1] # reads[2]
    /\ sent = <<ValueOfLine(reads[1]), ValueOfLine(reads[2])>>
    /\ Len(yielded) = 3
    /\ stdout = yielded

\* C9 as stated: when run_session_tool returns after the generator was
\* exhausted, or after an event of type session_end was emitted, and nothing
\* was raised, what it returns is {status: success}.
C9_Original ==
    ( /\ pc = "session_done"
      /\ fired_at = Null
      /\ \/ gen = "returned"
         \/ /\ gen = "suspended"
            /\ EventType(event) = "session_end"
            /\ Len(stdout) = Len(yielded)
            /\ Len(sent) = Len(reads) )
    => final = Dict([status |-> "success"])

\* ------------------------------------------------- a session on its own
\* one session tool run with --session; its generator may never end by itself
SessionInit ==
    /\ tools = [t1 |-> [streaming |-> FALSE, session_mode |-> TRUE, input_model |-> FALSE]]
    /\ registered = RegisteredOnce(tools)
    /\ resources = <<"/f/{id}">>
    /\ prompts = PromptNames
    /\ request_id = "id1"
    /\ argv \in {<<"--session">>, <<"t1", "--session">>}
    /\ doc = EmptyDoc
    /\ platform = "Unix"
    /\ gen_max \in {Endless} \cup 0..MaxYield
    /\ Fresh

SessionNext ==
    \/ RunTool
    \/ ToolParse
    \/ Invoke
    \/ ModeResolve
    \/ SessionFirst
    \/ SessionEmitFirst
    \/ SessionRecv
    \/ SessionSend
    \/ SessionEmit
    \/ SessionPrintFinal
    \/ Finally

\* the process is single-threaded and takes its next step whenever it has one
SessionSpec == SessionInit /\ [][SessionNext]_vars /\ WF_vars(SessionNext)

\* C10 as stated: once the input channel is closed, a running session ends.
C10_Original == (stdin_closed /\ pc = "session") ~> (pc # "session")

\* C11 as stated: every empty line the session driver has read, end of input
\* or a lone newline, is sent to the generator as {"action": "quit"}, and the
\* driver goes on to send it rather than return.
C11_Original ==
    \A k \in 1..Len(reads) :
        reads[k] \in {"", "\n"}
        => /\ k <= Len(sent) => sent[k] = Dict([action |-> "quit"])
           /\ (k > Len(sent) /\ fired_at = Null) => pc = "session"

\* the last line read is neither end of input nor JSON
ParseFailed == reads # <<>> /\ reads[Len(reads)] \in {"\n", "garbage\n"}

\* the INTERNAL status object for an exception text
InternalStatus(message) ==
    Dict([status |-> "error",
          error |-> [code |-> "INTERNAL", message |-> message, recoverable |-> FALSE]])

\* C12: in a session whose deadline does not fire, once the generator has
\* raised or a line read has failed to parse, run_session_tool has returned
\* the INTERNAL error status with the exception's text; every event yielded is
\* on stdout and nothing else but that status, which the dispatcher prints
\* last; the failing line is the last one read and is never sent.
C12_SessionError ==
    (mode = "Session" /\ fired_at = Null /\ (gen = "raised" \/ ParseFailed))
    => /\ pc \in {"session_done", "finally", "done"}
       /\ final = InternalStatus(IF gen = "raised" THEN body_exc.message
                                                   ELSE Msg("Expecting value", Null))
       /\ stdout = IF pc = "session_done" THEN yielded ELSE Append(yielded, final)
       /\ Len(reads) = IF gen = "raised" THEN Len(sent) ELSE Len(sent) + 1
       /\ Len(yielded) = Len(reads)

\* a second line that is not JSON ended a session after two events
C12_Witness ==
    /\ pc = "done"
    /\ mode = "Session"
    /\ fired_at = Null
    /\ reads = <<"{a}\n", "garbage\n">>
    /\ Len(sent) = 1
    /\ Len(stdout) = 3
    /\ stdout[3] = InternalStatus(Msg("Expecting value", Null))

\* C13: in a streaming run whose deadline does not fire, stdout holds the
\* events in yield order and nothing else; an event is on stdout before the
\* producer is pulled again; once the producer has returned after k events,
\* stdout is those k lines for good and the dispatcher only has its finally
\* block left.
C13_StreamLines ==
    (mode = "Streaming" /\ fired_at = Null)
    => /\ pc = "streaming" =>
             /\ Len(stdout) <= Len(yielded)
             /\ Len(yielded) <= Len(stdout) + 1
             /\ \A i \in 1..Len(stdout) : stdout[i] = yielded[i]
             /\ spc = "next" => stdout = yielded
       /\ gen = "returned" => pc \in {"finally", "done"} /\ stdout = yielded

\* a stream of three events is over and its three lines are on stdout
C13_Witness ==
    /\ pc = "done"
    /\ mode = "Streaming"
    /\ fired_at = Null
    /\ gen = "returned"
    /\ Len(yielded) = 3
    /\ stdout = yielded
    /\ EventType(stdout[3]) = "result"

\* the envelope the dispatcher is to print for an exception e of a producer
ProducerEnvelope(e) ==
    IF e.type = "ToolError" /\ e.suggestion # Null
    THEN Dict([status |-> "error",
               error |-> [code |-> e.code, message |-> e.message,
                          recoverable |-> e.recoverable, suggestion |-> e.suggestion]])
    ELSE IF e.type = "ToolError"
    THEN Dict([status |-> "error",
               error |-> [code |-> e.code, message |-> e.message,
                          recoverable |-> e.recoverable]])
    ELSE Dict([status |-> "error",
               error |-> [code |-> "INTERNAL", message |-> e.message, recoverable |-> FALSE]])

\* C14: in a streaming run whose deadline does not fire, once the producer
\* has raised after j events, those j lines are on stdout and the exception
\* itself is what the dispatcher handles; the dispatcher then prints exactly
\* one error envelope after them: the ToolError's own, or INTERNAL with
\* recoverable false and the exception text.
C14_ProducerRaises ==
    (mode = "Streaming" /\ gen = "raised" /\ fired_at = Null)
    => /\ pc \in {"except", "finally", "done"}
       /\ exc = body_exc
       /\ stdout = IF pc = "except" THEN yielded
                                    ELSE Append(yielded, ProducerEnvelope(body_exc))

\* a producer raised a plain exception after two events
C14_Witness ==
    /\ pc = "done"
    /\ mode = "Streaming"
    /\ gen = "raised"
    /\ fired_at = Null
    /\ body_exc.type = "Exception"
    /\ Len(yielded) = 2
    /\ Len(stdout) = 3
    /\ ErrorEnvelopeOf(stdout[3], "INTERNAL", FALSE)

\* ------------------------------------------------ sampling._sample_via_stdin
RequestIds == {"id1", "id2"}

\* the lines the caller may write: a sample_response for either id, a message
\* of another type, a line that is not JSON
SampleLines == {"{response id1}\n", "{response id2}\n", "{other}\n", "garbage\n"}

\* json.loads(line.strip()) succeeds
SampleIsJson(line) == line \in {"{response id1}\n", "{response id2}\n", "{other}\n"}

\* response.get("type")
SampleType(line) == IF line = "{other}\n" THEN "other_message" ELSE "sample_response"

\* response.get("id")
SampleId(line) ==
    CASE line = "{response id1}\n" -> "id1"
      [] line = "{response id2}\n" -> "id2"
      [] OTHER -> Null

\* response.get("content", "")
SampleContent(line) ==
    CASE line = "{response id1}\n" -> "content 1"
      [] line = "{response id2}\n" -> "content 2"
      [] OTHER -> ""

\* the test of line 63
SampleMatches(line, id) == SampleType(line) = "sample_response" /\ SampleId(line) = id

\* the request written on stdout (sampling.py 26-31)
SampleRequestOf(id) == Dict([type |-> "sample_request", id |-> id])

StdinClosed == OtherException(Msg("stdin closed while waiting for sample response", Null))

\* print(json.dumps(request), flush=True) (line 54)
SampleRequest ==
    /\ pc = "sample"
    /\ Stdout(SampleRequestOf(request_id))
    /\ pc' = "sample_wait"
    /\ UNCHANGED <<config, cwd, locals, timer, exc, propagating, toolst, driver,
                   stdin_closed, stderr, reads, sent, yielded>>

\* one iteration of the while loop (lines 57-64)
SampleRead ==
    /\ pc = "sample_wait"
    /\ \E line \in IF stdin_closed THEN {EOF} ELSE SampleLines \cup {EOF} :
          /\ stdin_closed' = (line = EOF)
          /\ reads' = Push(reads, line)
          /\ CASE line = EOF ->
                   /\ exc' = StdinClosed
                   /\ pc' = "sample_raised"
                   /\ UNCHANGED result
              [] line # EOF /\ ~SampleIsJson(line) ->
                   /\ exc' = OtherException(Msg("Expecting value", Null))
                   /\ pc' = "sample_raised"
                   /\ UNCHANGED result
              [] SampleIsJson(line) /\ SampleMatches(line, request_id) ->
                   /\ result' = Scalar(SampleContent(line))
                   /\ pc' = "sample_returned"
                   /\ UNCHANGED exc
              [] SampleIsJson(line) /\ ~SampleMatches(line, request_id) ->
                   UNCHANGED <<pc, exc, result>>
    /\ UNCHANGED <<config, cwd, locals, timer, propagating, invoked, body_ran, body_exc,
                   mode, driver, stdout, stderr, sent, yielded>>

\* one call of sample() over the stdin transport
SampleInit ==
    /\ tools = [t1 |-> PlainMeta]
    /\ registered = RegisteredOnce(tools)
    /\ resources = <<"/f/{id}">>
    /\ prompts = PromptNames
    /\ platform = "Unix"
    /\ argv = <<>>
    /\ doc = EmptyDoc
    /\ gen_max = 0
    /\ request_id \in RequestIds
    /\ pc = "sample"
    /\ Blank

SampleNext == SampleRequest \/ SampleRead

SampleSpec == SampleInit /\ [][SampleNext]_vars

\* the last line read
LastRead == reads[Len(reads)]

\* C15 as stated: the call writes one sample_request line; it returns only on
\* a sample_response with the request's id, with that line's content; it
\* fails only when the input closes; no other line ends the call.
C15_Original ==
    /\ pc # "sample" => stdout = <<Dict([type |-> "sample_request", id |-> request_id])>>
    /\ pc = "sample_returned" =>
          /\ LastRead = (IF request_id = "id1" THEN "{response id1}\n"
                                               ELSE "{response id2}\n")
          /\ result = Scalar(IF request_id = "id1" THEN "content 1" ELSE "content 2")
    /\ pc = "sample_raised" => LastRead = ""

\* the input object is validated, declares dry_run and holds true for it
DryRunAsked ==
    /\ IsToolInput(params)
    /\ "dry_run" \in params.d.declares
    /\ params.d.dry_run

\* the envelope of a dry run
DryRunEnvelope ==
    Dict([status |-> "success",
          result |-> Dict([dry_run |-> TRUE,
                           would_execute |-> Dict([log_safe |-> params.d.declares])])])

\* the working_dir step and the timeout step let the object through
WorkingDirPasses ==
    \/ "working_dir" \notin params.d.declares
    \/ params.d.working_dir \in {Null, "", "/work", "/cwd0"}

TimeoutPasses ==
    \/ "timeout" \notin params.d.declares
    \/ params.d.timeout_none
    \/ params.d.timeout \in 0..MaxTimeout

\* pre_validate() refused the object: its ToolError was printed
PreValidateRefused == stdout # <<>> /\ ErrorEnvelopeOf(stdout[1], "PRECONDITION", TRUE)

\* C16 as stated: a run with dry_run true whose object pre_validate() let
\* through, and that has returned, has not invoked the tool and has put exactly
\* the dry-run success envelope on stdout.
C16_Original ==
    (DryRunAsked /\ pc = "done" /\ fired_at = Null /\ ~PreValidateRefused)
    => invoked = 0 /\ stdout = <<DryRunEnvelope>>

\* C16: when a validated input object declares dry_run and holds true for it,
\* the tool callable is never invoked; when the run returns without a deadline
\* having fired, stdout holds exactly one value: the success envelope
\* {dry_run: true, would_execute: <to_log_safe() projection>} if pre_validate,
\* the working_dir step and the timeout step all let the object through, and
\* otherwise the error envelope of the step that refused it (pre_validate's
\* ToolError, INVALID_PATH or INVALID_INPUT).
C16_DryRun ==
    DryRunAsked
    => /\ invoked = 0
       /\ ~body_ran
       /\ Len(stdout) <= 1
       /\ (pc = "done" /\ fired_at = Null) =>
             /\ Len(stdout) = 1
             /\ \/ stdout[1] = DryRunEnvelope /\ WorkingDirPasses /\ TimeoutPasses
                \/ ErrorEnvelopeOf(stdout[1], "PRECONDITION", TRUE)
                \/ ErrorEnvelopeOf(stdout[1], "INVALID_PATH", TRUE) /\ ~WorkingDirPasses
                \/ /\ ErrorEnvelopeOf(stdout[1], "INVALID_INPUT", TRUE)
                   /\ WorkingDirPasses
                   /\ ~TimeoutPasses

\* a dry run with a working directory and a timeout has returned
C16_Witness ==
    /\ DryRunAsked
    /\ pc = "done"
    /\ fired_at = Null
    /\ params.d.declares = {"timeout", "working_dir", "dry_run"}
    /\ params.d.working_dir = "/work"
    /\ deadline_secs = 1
    /\ stdout = <<DryRunEnvelope>>

\* the input object is validated, pre_validate() included, and has working_dir set
WorkingDirAsked ==
    /\ IsToolInput(params)
    /\ "working_dir" \in params.d.declares
    /\ params.d.working_dir \notin {Null, ""}
    /\ pc \notin {"tool", "pre_validate"}
    /\ ~PreValidateRefused
    /\ ~(pc = "escaped" /\ exc = PreValidateException)

\* C17: for a validated input object with working_dir set: if it names no
\* existing directory, the run ends at the working_dir step with exactly an
\* INVALID_PATH envelope, recoverable, on stdout, the tool not invoked and the
\* working directory unchanged; if it names one, the working directory is that
\* directory from the working_dir step on, so before the tool is invoked.
C17_WorkingDir ==
    WorkingDirAsked
    => IF params.d.working_dir \in {"/work", "/cwd0"}
       THEN /\ pc # "working_dir" => cwd = params.d.working_dir
            /\ invoked > 0 => cwd = params.d.working_dir
       ELSE /\ pc \in {"working_dir", "done"}
            /\ invoked = 0
            /\ cwd = "/cwd0"
            /\ deadline = "none"
            /\ pc = "done" => /\ Len(stdout) = 1
                              /\ ErrorEnvelopeOf(stdout[1], "INVALID_PATH", TRUE)

\* a tool was invoked after the working directory was changed
C17_Witness ==
    /\ WorkingDirAsked
    /\ params.d.working_dir = "/work"
    /\ invoked = 1
    /\ body_ran
    /\ cwd = "/work"

\* the run is one that --validate answers
ValidateAsked ==
    /\ name # Null
    /\ In("--validate", args)
    /\ ~In("--manifest", args)
    /\ ~In("--help", args)

\* the token --validate is to validate: the one after it, else the first one
\* that opens a brace, else "{}"
ValidatedToken ==
    LET after == {i \in 1..Len(args) : i > 1 /\ args[i - 1] = "--validate"}
        braces == {i \in 1..Len(args) : args[i] \in {"{doc}", "{inv}", "{bad"}} IN
    IF after # {} THEN args[CHOOSE i \in after : \A j \in after : i <= j]
    ELSE IF braces # {} THEN args[CHOOSE i \in braces : \A j \in braces : i <= j]
    ELSE "{}"

\* v is {valid: true}, or {valid: false, errors: [...]} with an entry
IsVerdict(v) ==
    /\ IsDict(v)
    /\ "valid" \in DOMAIN v.d
    /\ IF v.d.valid THEN DOMAIN v.d = {"valid"}
                     ELSE DOMAIN v.d = {"valid", "errors"} /\ Len(v.d.errors) = 1

\* C18: a run that --validate answers never invokes the tool callable and
\* changes neither the working directory nor the deadline; it prints exactly
\* one object, {valid: true} or {valid: false, errors: [...]}; the object is
\* decided by the input alone, but for what pre_validate() does: false for a
\* token that is not JSON and for data the model rejects, true for any JSON
\* when the tool has no input model, and otherwise true, or false with the
\* ToolError's code and message, or false with the exception's text.
C18_Validate ==
    ValidateAsked
    => /\ pc \in {"tool", "done"}
       /\ invoked = 0
       /\ ~body_ran
       /\ cwd = "/cwd0"
       /\ deadline = "none"
       /\ reads = <<>>
       /\ pc = "tool" => stdout = <<>>
       /\ pc = "done" =>
             /\ Len(stdout) = 1
             /\ IsVerdict(stdout[1])
             /\ LET v == stdout[1].d
                    tok == ValidatedToken IN
                CASE tok \notin {"{}", "{doc}", "{inv}"} -> ~v.valid
                  [] tok \in {"{}", "{doc}", "{inv}"} /\ ~tools[name].input_model -> v.valid
                  [] tok = "{inv}" /\ tools[name].input_model -> ~v.valid
                  [] OTHER ->
                       \/ v.valid
                       \/ ~v.valid /\ v.errors[1] = [code |-> "PRECONDITION",
                                                      message |-> Msg("precondition failed", Null)]
                       \/ ~v.valid /\ v.errors[1] = [message |-> Msg("disk error", Null)]

\* --validate reported the ToolError of pre_validate()
C18_Witness ==
    /\ ValidateAsked
    /\ pc = "done"
    /\ ValidatedToken = "{doc}"
    /\ tools[name].input_model
    /\ Len(stdout) = 1
    /\ ~stdout[1].d.valid
    /\ DOMAIN stdout[1].d.errors[1] = {"code", "message"}

\* the value a direct call is to print for a return value r
WrappedOnce(r) ==
    IF r.t = "dict" /\ "status" \in DOMAIN r.d THEN r
    ELSE IF r.t = "dict" THEN Dict([status |-> "success", result |-> r])
    ELSE Dict([status |-> "success", result |-> Dict([result |-> r])])

\* C19: in direct mode, when no deadline fires, a tool's JSON-serialisable
\* return value is printed as the only value on stdout: unchanged if it is a
\* mapping with a status key, inside {status: success, result: ...} if it is
\* another mapping, and as {status: success, result: {result: ...}} if it is
\* not a mapping.
C19_DirectRendering ==
    ( /\ mode = "Direct"
      /\ fired_at = Null
      /\ result.t # "object"
      /\ pc \in Terminal \cup {"finally"} )
    => /\ pc \in {"finally", "done"}
       /\ Len(stdout) = 1
       /\ IF result.t = "dict" /\ "status" \in DOMAIN result.d
          THEN stdout[1].d.status = result.d.status /\ stdout[1] = result
          ELSE stdout[1] = WrappedOnce(result)

\* a tool returned its own envelope and it was printed as it is
C19_Witness ==
    /\ pc = "done"
    /\ mode = "Direct"
    /\ fired_at = Null
    /\ result = Dict([status |-> "partial", result |-> "r"])
    /\ stdout = <<result>>

\* the arguments are neither help, nor a global flag, nor --resource or --prompt
DispatchesTool ==
    /\ argv # <<>>
    /\ argv # <<"--help">>
    /\ \A i \in 1..Len(argv) :
          argv[i] \notin {"--discover", "--tools", "--resources", "--prompts",
                          "--resource", "--prompt"}

\* C20: once run() has dispatched on the first token: if it names a registered
\* tool, that tool is run with the remaining tokens; if it names none and one
\* tool is registered, that tool is run with all the tokens; if it names none
\* and several tools are registered, run() has returned with exactly a
\* NOT_FOUND envelope naming the token on stdout and no tool invoked.
C20_Dispatch ==
    (DispatchesTool /\ pc # "run")
    => IF argv[1] \in DOMAIN tools
       THEN name = argv[1] /\ args = Tail(argv)
       ELSE IF Cardinality(DOMAIN tools) = 1
       THEN name \in DOMAIN tools /\ args = argv
       ELSE /\ pc = "done"
            /\ name = Null
            /\ invoked = 0
            /\ Len(stdout) = 1
            /\ ErrorEnvelopeOf(stdout[1], "NOT_FOUND", TRUE)
            /\ stdout[1].d.error.message.arg = argv[1]

\* the only tool was run with a first token that is not its name
C20_Witness ==
    /\ DispatchesTool
    /\ pc = "done"
    /\ Cardinality(DOMAIN tools) = 1
    /\ argv[1] = "zz"
    /\ Len(argv) = 2
    /\ args = argv
    /\ invoked = 1

\* ---------------------------------------------------------------------- C21
\* the global manifest flags of run()
ManifestFlags == {"--discover", "--tools", "--resources", "--prompts"}

\* the manifest that each global flag prints
ManifestOf(flag) ==
    IF flag = "--discover"
    THEN Dict([tools |-> {[name |-> n, streaming |-> tools[n].streaming,
                           session_mode |-> tools[n].session_mode] : n \in DOMAIN tools},
               resources |-> resources, prompts |-> prompts])
    ELSE IF flag = "--tools" THEN Dict([tools |-> DOMAIN tools])
    ELSE IF flag = "--resources" THEN Dict([resources |-> resources])
    ELSE Dict([prompts |-> prompts])

\* how many of the five things run() can do are open to it in this state
BranchesOpen ==
    Cardinality({b \in 1..5 :
        CASE b = 1 -> ENABLED RunHelp
          [] b = 2 -> ENABLED (RunDiscover \/ RunList)
          [] b = 3 -> ENABLED RunResource
          [] b = 4 -> ENABLED RunPrompt
          [] b = 5 -> ENABLED (RunTool \/ RunUnknown)})

\* C21: every run() does exactly one of help, manifest listing, resource fetch,
\* prompt render and tool dispatch, and calls at most one registered callable;
\* with a manifest flag anywhere in the arguments the run prints that manifest
\* and calls nothing, even when the first token names a tool
C21_OneBranch ==
    /\ pc = "run" => BranchesOpen = 1
    /\ invoked <= 1
    /\ (pc # "run" /\ \E f \in ManifestFlags : In(f, argv)) =>
          /\ pc = "done"
          /\ invoked = 0
          /\ name = Null
          /\ Len(stdout) = 1
          /\ \E f \in ManifestFlags : In(f, argv) /\ stdout[1] = ManifestOf(f)

\* a run whose first token names a tool and whose arguments hold --discover has
\* printed the manifest
C21_Witness ==
    /\ pc = "done"
    /\ Len(argv) = 2
    /\ argv[1] \in DOMAIN tools
    /\ argv[2] = "--discover"
    /\ Len(stdout) = 1
    /\ invoked = 0

\* ------------------------------------------------------------ _fetch_resource
\* the URI patterns that resources are registered under
UriPatterns == {"/f/{id}", "/f/{id}.j", "/{a}/{id}", "/f/[1]", "/f/1", "/{a}.{id}"}

\* the URIs asked for
Uris == {"/f/1", "/n", "/f/1.j", "/f/1Xj", "/f/1.j/1", "/f/", "/f/11", "/1.1.j", "/f/[1]"}

\* self._resources after the registrations: a dict keeps its keys in insertion
\* order and holds each key once
ResourceLists ==
    {<<a>> : a \in UriPatterns}
        \cup {l \in {<<a, b>> : a \in UriPatterns, b \in UriPatterns} : l[1] # l[2]}

\* the URI that run() hands to _fetch_resource
FetchUri == argv[2]

\* what the handler of a pattern returns for its arguments
HandlerResult(pattern, groups) == Dict([resource |-> pattern, groups |-> groups])

\* the for loop up to its first match: params = match.groupdict()
FetchMatch ==
    /\ pc = "fetch"
    /\ FirstMatch(FetchUri) # 0
    /\ name' = resources[FirstMatch(FetchUri)]
    /\ params' = Dict([groups |-> GroupDict(resources[FirstMatch(FetchUri)], FetchUri)])
    /\ pc' = "fetch_call"
    /\ UNCHANGED <<config, cwd, args, streaming, session_mode, timer, exc, propagating, toolst,
                   driver, channels>>

\* the for loop ends without a match
FetchNotFound ==
    /\ pc = "fetch"
    /\ FirstMatch(FetchUri) = 0
    /\ Stdout(ResponseError("NOT_FOUND", Msg("No resource matches URI: ", FetchUri), TRUE, Null))
    /\ pc' = "done"
    /\ UNCHANGED <<config, cwd, locals, timer, exc, propagating, toolst, driver,
                   stdin_closed, stderr, reads, sent, yielded>>

\* result = fn(**params); print(json.dumps(result)); return
FetchReturns ==
    /\ pc = "fetch_call"
    /\ invoked' = invoked + 1
    /\ result' = HandlerResult(name, params.d.groups)
    /\ Stdout(HandlerResult(name, params.d.groups))
    /\ pc' = "done"
    /\ UNCHANGED <<config, cwd, locals, timer, exc, propagating, body_ran, body_exc, mode, driver,
                   stdin_closed, stderr, reads, sent, yielded>>

\* a handler failure that is reported as one the caller can retry
FetchRaisesRecoverable ==
    /\ pc = "fetch_call"
    /\ invoked' = invoked + 1
    /\ body_exc' = OtherException(Msg("handler failed", Null))
    /\ Stdout(ResponseError("INTERNAL", Msg("handler failed", Null), TRUE, Null))
    /\ pc' = "done"
    /\ UNCHANGED <<config, cwd, locals, timer, exc, propagating, result, body_ran, mode, driver,
                   stdin_closed, stderr, reads, sent, yielded>>

\* fn(**params) or json.dumps raises: except Exception as e prints
\* Response.error("INTERNAL", str(e)); return
FetchRaises ==
    /\ pc = "fetch_call"
    /\ invoked' = invoked + 1
    /\ body_exc' = OtherException(Msg("handler failed", Null))
    /\ Stdout(ResponseError("INTERNAL", Msg("handler failed", Null), FALSE, Null))
    /\ pc' = "done"
    /\ UNCHANGED <<config, cwd, locals, timer, exc, propagating, result, body_ran, mode, driver,
                   stdin_closed, stderr, reads, sent, yielded>>

\* one call of _fetch_resource
FetchInit ==
    /\ tools = [t1 |-> PlainMeta]
    /\ registered = RegisteredOnce(tools)
    /\ resources \in ResourceLists
    /\ prompts = PromptNames
    /\ platform = "Unix"
    /\ argv \in {<<"--resource", u>> : u \in Uris}
    /\ doc = EmptyDoc
    /\ gen_max = 0
    /\ request_id = "id1"
    /\ pc = "fetch"
    /\ Blank

FetchNext == FetchMatch \/ FetchNotFound \/ FetchReturns \/ FetchRaises

FetchSpec == FetchInit /\ [][FetchNext]_vars

\* ---------------------------------------------------------------------- C22
\* the parameter names of a pattern's placeholders
PlaceholdersOf(p) == {PlaceholderName(p[i]) : i \in {k \in 1..Len(p) : IsPlaceholder(p[k])}}

\* the non-empty pieces of a URI that hold no "/"
Pieces(u) ==
    {SubSeq(u, a, b) : a \in 1..Len(u), b \in 1..Len(u)}
        \ {w \in {SubSeq(u, a, b) : a \in 1..Len(u), b \in 1..Len(u)} :
              w = <<>> \/ \E m \in 1..Len(w) : w[m] = "/"}

RECURSIVE Substituted(_, _, _)
\* the pattern from position i on, with its placeholders replaced by sub
Substituted(p, sub, i) ==
    IF i > Len(p) THEN <<>>
    ELSE (IF IsPlaceholder(p[i]) THEN sub[PlaceholderName(p[i])] ELSE <<p[i]>>)
             \o Substituted(p, sub, i + 1)

\* the replacements of the placeholders that turn the pattern into the URI
Substitutions(pattern, uri) ==
    {sub \in [PlaceholdersOf(Chars(pattern)) -> Pieces(Chars(uri))] :
        Substituted(Chars(pattern), sub, 1) = Chars(uri)}

\* C22: a URI matches a pattern exactly when the whole URI is the pattern with
\* each placeholder replaced by a non-empty string without "/", every other
\* character of the pattern, ".", "[" and "]" included, standing for itself; the
\* handler is called with those strings under the placeholders' names
C22_Matching ==
    /\ \A i \in 1..Len(resources) :
          Len(argv) = 2 =>
             (UriMatches(resources[i], argv[2]) <=> Substitutions(resources[i], argv[2]) # {})
    /\ pc \in {"fetch_call", "done"} /\ name # Null =>
          \E sub \in Substitutions(name, argv[2]) :
             params.d.groups = {<<n, sub[n]>> : n \in DOMAIN sub}
    /\ pc = "done" /\ name # Null /\ body_exc = NoExc =>
          \E sub \in Substitutions(name, argv[2]) :
             stdout = <<Dict([resource |-> name,
                              groups |-> {<<n, sub[n]>> : n \in DOMAIN sub}])>>

\* the handler of /f/{id}.j was called with id = "1" for /f/1.j
C22_Witness ==
    /\ pc = "done"
    /\ resources[1] = "/f/{id}.j"
    /\ argv = <<"--resource", "/f/1.j">>
    /\ name = "/f/{id}.j"
    /\ invoked = 1
    /\ params.d.groups = {<<"id", <<"1">>>>}

\* /f/1Xj and /f/1.j/1 were refused by /f/{id}.j
C22_WitnessRefused ==
    /\ pc = "done"
    /\ resources = <<"/f/{id}.j">>
    /\ argv[2] \in {"/f/1Xj", "/f/1.j/1"}
    /\ invoked = 0
    /\ Len(stdout) = 1

\* ---------------------------------------------------------------------- C23
\* the position of a pattern in the registration order
PositionOf(pattern) == CHOOSE i \in 1..Len(resources) : resources[i] = pattern

\* C23: a fetch calls the handler of the first pattern, in registration order,
\* that matches the URI, and no other handler; a later pattern is not preferred
\* for being longer or more specific
C23_FirstMatch ==
    /\ invoked <= 1
    /\ pc \in {"fetch_call", "done"} /\ name # Null =>
          /\ \E i \in 1..Len(resources) : resources[i] = name
          /\ Substitutions(name, argv[2]) # {}
          /\ \A j \in 1..(PositionOf(name) - 1) : Substitutions(resources[j], argv[2]) = {}
    /\ pc = "done" /\ invoked = 1 => name # Null /\ Len(stdout) = 1

\* /f/{id} is registered before /f/1 and its handler answered the fetch of /f/1
C23_Witness ==
    /\ pc = "done"
    /\ resources = <<"/f/{id}", "/f/1">>
    /\ argv[2] = "/f/1"
    /\ name = "/f/{id}"
    /\ invoked = 1
    /\ stdout = <<Dict([resource |-> "/f/{id}", groups |-> {<<"id", <<"1">>>>}])>>

\* ---------------------------------------------------------------------- C24
\* C24: a fetch whose URI no pattern matches prints a NOT_FOUND error marked
\* recoverable; a fetch whose handler raises prints an INTERNAL error marked not
\* recoverable with the exception's text, and tries no later pattern
C24_FetchErrors ==
    pc = "done" /\ Len(argv) = 2 =>
       /\ (\A i \in 1..Len(resources) : Substitutions(resources[i], argv[2]) = {}) =>
             /\ invoked = 0
             /\ stdout = <<Dict([status |-> "error",
                                 error |-> [code |-> "NOT_FOUND",
                                            message |-> [text |-> "No resource matches URI: ",
                                                         arg |-> argv[2]],
                                            recoverable |-> TRUE]])>>
       /\ body_exc # NoExc =>
             /\ invoked = 1
             /\ stdout = <<Dict([status |-> "error",
                                 error |-> [code |-> "INTERNAL",
                                            message |-> body_exc.message,
                                            recoverable |-> FALSE]])>>

\* the handler of the first of two matching patterns raised
C24_Witness ==
    /\ pc = "done"
    /\ resources = <<"/f/{id}", "/{a}/{id}">>
    /\ argv[2] = "/f/1"
    /\ body_exc # NoExc
    /\ invoked = 1
    /\ Len(stdout) = 1

\* no pattern matched the URI
C24_WitnessNotFound ==
    /\ pc = "done"
    /\ resources = <<"/f/{id}", "/f/[1]">>
    /\ argv[2] = "/n"
    /\ Len(stdout) = 1

\* ------------------------------------------------------------------ register
\* how many calls of register() a construction makes
MaxRegs == 3

\* the names tools are registered under
ToolNames == {"t1", "t2"}

\* a registration that keeps the callable already registered under the name
RegisterKeepsFirst(n, meta) ==
    /\ pc = "setup"
    /\ Len(registered) < MaxRegs
    /\ tools' = [k \in DOMAIN tools \cup {n} |-> IF k \in DOMAIN tools THEN tools[k] ELSE meta]
    /\ registered' = Append(registered, <<n, meta>>)
    /\ UNCHANGED <<resources, prompts, platform, argv, doc, gen_max, request_id, cwd, pc, locals,
                   timer, exc, propagating, toolst, driver, channels>>

\* register(fn, name): self._tools[tool_name] = fn
Register(n, meta) ==
    /\ pc = "setup"
    /\ Len(registered) < MaxRegs
    /\ tools' = [k \in DOMAIN tools \cup {n} |-> IF k = n THEN meta ELSE tools[k]]
    /\ registered' = Append(registered, <<n, meta>>)
    /\ UNCHANGED <<resources, prompts, platform, argv, doc, gen_max, request_id, cwd, pc, locals,
                   timer, exc, propagating, toolst, driver, channels>>

\* the program calls run() once the registrations are made
CallRun ==
    /\ pc = "setup"
    /\ pc' = "run"
    /\ UNCHANGED <<config, cwd, locals, timer, exc, propagating, toolst, driver, channels>>

\* a construction of the AgentCLI followed by run() with --discover
RegisterInit ==
    /\ tools = <<>>
    /\ registered = <<>>
    /\ resources = <<"/f/{id}">>
    /\ prompts = PromptNames
    /\ platform = "Unix"
    /\ argv = <<"--discover">>
    /\ doc = EmptyDoc
    /\ gen_max = 0
    /\ request_id = "id1"
    /\ pc = "setup"
    /\ Blank

RegisterNext ==
    \/ \E n \in ToolNames, meta \in Metas : Register(n, meta)
    \/ CallRun
    \/ RunDiscover

RegisterSpec == RegisterInit /\ [][RegisterNext]_vars

\* ---------------------------------------------------------------------- C25
\* the names that register() was called with
RegisteredNames == {registered[i][1] : i \in 1..Len(registered)}

\* the metadata of the last call of register() with the name
LastRegistered(n) ==
    registered[CHOOSE i \in 1..Len(registered) :
                  /\ registered[i][1] = n
                  /\ \A j \in (i + 1)..Len(registered) : registered[j][1] # n][2]

\* C25: after any sequence of registrations, registering a name again included,
\* --discover lists one entry for each distinct registered name, with the
\* streaming and session_mode flags of the callable registered last under it
C25_Discover ==
    pc = "done" /\ argv = <<"--discover">> =>
       /\ Len(stdout) = 1
       /\ Cardinality(stdout[1].d.tools) = Cardinality(RegisteredNames)
       /\ stdout[1].d.tools =
             {[name |-> n,
               streaming |-> LastRegistered(n).streaming,
               session_mode |-> LastRegistered(n).session_mode] : n \in RegisteredNames}

\* t1 was registered as a plain tool, then again as a streaming one, and the
\* manifest lists it once, as streaming
C25_Witness ==
    /\ pc = "done"
    /\ Len(registered) = 2
    /\ registered[1][1] = "t1" /\ ~registered[1][2].streaming
    /\ registered[2][1] = "t1" /\ registered[2][2].streaming
    /\ Len(stdout) = 1
    /\ Cardinality(stdout[1].d.tools) = 1

\* --------------------------------------------------------- Response.partial
\* a value of the result dict: a list of 0..2 items, or something that is no list
ResultValues == [list : {TRUE}, len : 0..2] \cup {[list |-> FALSE, len |-> 0]}

\* the result dict, as its values in key order; the keys are "k1", "k2"
ResultDicts == {<<>>} \cup {<<v>> : v \in ResultValues}
                   \cup {<<v, w>> : v \in ResultValues, w \in ResultValues}

\* an entry of errors: a dict that may hold "recoverable"
ErrorEntries == {[has |-> TRUE, recoverable |-> TRUE], [has |-> TRUE, recoverable |-> FALSE],
                 [has |-> FALSE, recoverable |-> FALSE]}

ErrorLists == {<<>>} \cup {<<e>> : e \in ErrorEntries}
                  \cup {<<e, f>> : e \in ErrorEntries, f \in ErrorEntries}

\* result_key: None, empty, a key of result or a key it lacks
ResultKeys == {Null, "", "k1", "k2", "zz"}

\* the position of a key in the result dict, 0 for a key it lacks
KeyPosition(r, k) ==
    IF k = "k1" /\ Len(r) >= 1 THEN 1 ELSE IF k = "k2" /\ Len(r) >= 2 THEN 2 ELSE 0

\* succeeded_count: len(result.get(result_key, [])) for a truthy result_key,
\* else the length of the first value that is a list, else 0
SucceededCount(r, k) ==
    IF k # Null /\ k # ""
    THEN IF KeyPosition(r, k) = 0 THEN 0 ELSE r[KeyPosition(r, k)].len
    ELSE IF \E i \in 1..Len(r) : r[i].list
         THEN r[CHOOSE i \in 1..Len(r) : r[i].list /\ \A j \in 1..(i - 1) : ~r[j].list].len
         ELSE 0

\* sum(1 for e in errors if e.get("recoverable", False))
RecoverableCount(errors) ==
    Cardinality({i \in 1..Len(errors) : errors[i].has /\ errors[i].recoverable})

\* a status that looks at the successes before the failures
StatusBySucceeded(succeeded, failed) ==
    IF succeeded = 0 THEN "error" ELSE IF failed = 0 THEN "success" ELSE "partial"

\* the status of a partial response
PartialStatus(succeeded, failed) ==
    IF failed = 0 THEN "success" ELSE IF succeeded = 0 THEN "error" ELSE "partial"

\* Response.partial; the errors key is present only for a non-empty list
Partial(r, errors, k) ==
    LET status == PartialStatus(SucceededCount(r, k), Len(errors))
        summary == [total |-> SucceededCount(r, k) + Len(errors),
                    succeeded |-> SucceededCount(r, k),
                    failed |-> Len(errors),
                    recoverable_failures |-> RecoverableCount(errors)]
    IN  IF errors # <<>>
        THEN Dict([status |-> status, result |-> r, summary |-> summary, errors |-> errors])
        ELSE Dict([status |-> status, result |-> r, summary |-> summary])

\* ------------------------------------------------------------- notifications
\* how many notifications a program sends
MaxNotes == 2

\* the calls of notify.progress, notify.log and notify.artifact; a percent is
\* written as its digits
NotifyCalls ==
    {<<"progress", "msg", percent>> : percent \in {Null, "0", "50"}}
        \cup {<<"log", "msg", level>> : level \in {"info", "warning"}}
        \cup {<<"artifact", "report", "/f/1">>}

\* the event that progress, log and artifact build; percent is a key only when
\* it is not None
NotificationOf(call) ==
    IF call[1] = "progress"
    THEN IF call[3] # Null
         THEN Dict([type |-> "notification", kind |-> "progress", message |-> call[2],
                    percent |-> call[3]])
         ELSE Dict([type |-> "notification", kind |-> "progress", message |-> call[2]])
    ELSE IF call[1] = "log"
    THEN Dict([type |-> "notification", kind |-> "log", level |-> call[3], message |-> call[2]])
    ELSE Dict([type |-> "notification", kind |-> "artifact", name |-> call[2], uri |-> call[3]])

\* ------------------------------------------------------- calls of the library
\* Response.partial(result, errors, result_key); a result_key names a list or
\* a key that result lacks
CallPartial(r, errors, k) ==
    /\ pc = "lib"
    /\ KeyPosition(r, k) # 0 => r[KeyPosition(r, k)].list
    /\ name' = "Response.partial"
    /\ args' = <<r, errors, k>>
    /\ result' = Partial(r, errors, k)
    /\ pc' = "returned"
    /\ UNCHANGED <<config, cwd, streaming, session_mode, params, timer, exc, propagating,
                   invoked, body_ran, body_exc, mode, driver, channels>>

\* ToolError(code, message, recoverable)
CallToolError(code, recoverable) ==
    /\ pc = "lib"
    /\ name' = "ToolError"
    /\ args' = <<code, recoverable>>
    /\ exc' = ToolError(code, Msg("no such item", Null), recoverable, Null)
    /\ pc' = "constructed"
    /\ UNCHANGED <<config, cwd, streaming, session_mode, params, timer, propagating, toolst,
                   driver, channels>>

\* e.to_response()
CallToResponse ==
    /\ pc = "constructed"
    /\ result' = ToResponse(exc)
    /\ pc' = "returned"
    /\ UNCHANGED <<config, cwd, locals, timer, exc, propagating, invoked, body_ran, body_exc,
                   mode, driver, channels>>

\* notify.progress, notify.log, notify.artifact up to the call of _emit
CallNotify(call) ==
    /\ pc = "lib"
    /\ Len(stderr) < MaxNotes
    /\ name' = "notify"
    /\ args' = call
    /\ pc' = "emit"
    /\ UNCHANGED <<config, cwd, streaming, session_mode, params, timer, exc, propagating, toolst,
                   driver, channels>>

\* an emitter that prints on the primary channel
NotifyEmitStdout ==
    /\ pc = "emit"
    /\ stdout' = Append(stdout, NotificationOf(args))
    /\ pc' = "lib"
    /\ UNCHANGED <<config, cwd, locals, timer, exc, propagating, toolst, driver,
                   stdin_closed, stderr, reads, sent, yielded>>

\* _emit: print(json.dumps(data), file=sys.stderr, flush=True)
NotifyEmit ==
    /\ pc = "emit"
    /\ stderr' = Append(stderr, NotificationOf(args))
    /\ pc' = "lib"
    /\ UNCHANGED <<config, cwd, locals, timer, exc, propagating, toolst, driver,
                   stdin_closed, stdout, reads, sent, yielded>>

\* a program that uses the library outside run()
LibInit ==
    /\ tools = [t1 |-> PlainMeta]
    /\ registered = RegisteredOnce(tools)
    /\ resources = <<"/f/{id}">>
    /\ prompts = PromptNames
    /\ platform = "Unix"
    /\ argv = <<>>
    /\ doc = EmptyDoc
    /\ gen_max = 0
    /\ request_id = "id1"
    /\ pc = "lib"
    /\ Blank

LibNext ==
    \/ \E r \in ResultDicts, errors \in ErrorLists, k \in ResultKeys : CallPartial(r, errors, k)
    \/ \E code \in ErrorCodes, recoverable \in {Null, "True", "False"} :
          CallToolError(code, recoverable)
    \/ CallToResponse
    \/ \E call \in NotifyCalls : CallNotify(call)
    \/ NotifyEmit

LibSpec == LibInit /\ [][LibNext]_vars

\* ---------------------------------------------------------------------- C26
\* C26: the status of Response.partial(result, errors) is "error" exactly when
\* nothing succeeded and errors is not empty, "success" exactly when errors is
\* empty, and "partial" otherwise; summary.total is succeeded plus failed and
\* summary.failed is the length of errors
C26_Partial ==
    pc = "returned" /\ name = "Response.partial" =>
       LET errors == args[2]
           resp == result.d
       IN  /\ resp.status = "error" <=> (resp.summary.succeeded = 0 /\ errors # <<>>)
           /\ resp.status = "success" <=> errors = <<>>
           /\ resp.status = "partial" <=> (resp.summary.succeeded # 0 /\ errors # <<>>)
           /\ resp.summary.total = resp.summary.succeeded + resp.summary.failed
           /\ resp.summary.failed = Len(errors)

\* nothing succeeded and nothing failed: the status is "success"
C26_Witness ==
    /\ pc = "returned"
    /\ name = "Response.partial"
    /\ args[1] = <<[list |-> TRUE, len |-> 0]>>
    /\ args[2] = <<>>
    /\ result.d.status = "success"
    /\ result.d.summary.total = 0

\* two items succeeded and one failed: the status is "partial"
C26_WitnessPartial ==
    /\ pc = "returned"
    /\ name = "Response.partial"
    /\ Len(args[2]) = 1
    /\ result.d.status = "partial"
    /\ result.d.summary.total = 3

\* ---------------------------------------------------------------------- C27
\* C27: a ToolError built without a recoverable argument is recoverable for
\* INVALID_INPUT, MISSING_PARAM, INVALID_PATH, NOT_FOUND, CONFLICT and
\* PRECONDITION and not recoverable for TIMEOUT, PERMISSION, INTERNAL and
\* DEPENDENCY; a recoverable argument is taken as given; to_response() carries
\* the error's value unchanged
C27_Recoverable ==
    pc \in {"constructed", "returned"} /\ name = "ToolError" =>
       LET expected ==
               IF args[2] = Null
               THEN args[1] \in {"INVALID_INPUT", "MISSING_PARAM", "INVALID_PATH",
                                 "NOT_FOUND", "CONFLICT", "PRECONDITION"}
               ELSE args[2] = "True"
       IN  /\ args[1] \in {"INVALID_INPUT", "MISSING_PARAM", "INVALID_PATH", "NOT_FOUND",
                           "CONFLICT", "PRECONDITION", "TIMEOUT", "PERMISSION", "INTERNAL",
                           "DEPENDENCY"}
           /\ exc.recoverable = expected
           /\ pc = "returned" =>
                 /\ result.d.status = "error"
                 /\ result.d.error.code = args[1]
                 /\ result.d.error.recoverable = expected

\* a TIMEOUT error built without the argument was rendered as not recoverable
C27_Witness ==
    /\ pc = "returned"
    /\ name = "ToolError"
    /\ args = <<"TIMEOUT", Null>>
    /\ ~result.d.error.recoverable

\* a NOT_FOUND error built with recoverable=False was rendered as not recoverable
C27_WitnessExplicit ==
    /\ pc = "returned"
    /\ name = "ToolError"
    /\ args = <<"NOT_FOUND", "False">>
    /\ ~result.d.error.recoverable

\* ---------------------------------------------------------------------- C28
\* C28: every call of notify.progress, notify.log or notify.artifact writes one
\* JSON line, its notification, to stderr and nothing to stdout
C28_Notify ==
    [][/\ pc = "emit" =>
            /\ Len(stderr') = Len(stderr) + 1
            /\ SubSeq(stderr', 1, Len(stderr)) = stderr
            /\ stderr'[Len(stderr')].t = "dict"
            /\ stderr'[Len(stderr')].d.type = "notification"
            /\ stderr'[Len(stderr')].d.kind = args[1]
            /\ stdout' = stdout
       /\ name' = "notify" /\ pc' = "emit" => stderr' = stderr /\ stdout' = stdout]_vars

\* two notifications were sent: two lines on stderr, none on stdout
C28_Witness ==
    /\ pc = "lib"
    /\ name = "notify"
    /\ Len(stderr) = 2
    /\ stderr[1].d.kind = "progress"
    /\ stderr[2].d.kind = "artifact"
    /\ stdout = <<>>

\* ------------------------------------------------- _parse_input, flag syntax
\* how many tokens follow the tool's name
MaxArgs == 3

\* the tokens of an invocation in flag syntax
FlagTokens == {"--name", "--dry-run", "--dry_run", "--stream", "--sample-via", "stdin", "5", "abc"}

\* the token lists of at most MaxArgs tokens
FlagArgLists == UNION {[1..n -> FlagTokens] : n \in 0..MaxArgs}

\* _parse_input(fn, meta, args, None) of a tool without an input model
CallParseFlags(a) ==
    /\ pc = "parse"
    /\ args' = a
    /\ params' = Dict(FlagData(a))
    /\ pc' = "returned"
    /\ UNCHANGED <<config, cwd, name, streaming, session_mode, timer, exc, propagating, toolst,
                   driver, channels>>

ParseInit ==
    /\ tools = [t1 |-> PlainMeta]
    /\ registered = RegisteredOnce(tools)
    /\ resources = <<"/f/{id}">>
    /\ prompts = PromptNames
    /\ platform = "Unix"
    /\ argv = <<>>
    /\ doc = EmptyDoc
    /\ gen_max = 0
    /\ request_id = "id1"
    /\ pc = "parse"
    /\ Blank

ParseNext == \E a \in FlagArgLists : CallParseFlags(a)

ParseSpec == ParseInit /\ [][ParseNext]_vars

\* ---------------------------------------------------------------------- C29
\* the flags of the dispatcher
OwnFlags == {"--stream", "--session", "--sample-via", "--manifest", "--help", "--validate"}

\* a token that starts with "--"
Dashed(tok) == tok \in OwnFlags \cup {"--name", "--dry-run", "--dry_run"}

\* the parameter name of a key: the key without "--", hyphens as underscores
ParameterOf(tok) == IF tok = "--name" THEN "name" ELSE "dry_run"

\* the positions of the keys that name the parameter
KeysOf(a, k) == {i \in 1..Len(a) : Dashed(a[i]) /\ a[i] \notin OwnFlags /\ ParameterOf(a[i]) = k}

\* the value that the key at position i gives its parameter
ValueAt(a, i) ==
    IF i = Len(a) \/ Dashed(a[i + 1])
    THEN [t |-> "bool", v |-> "true"]
    ELSE IF a[i + 1] = "5" THEN [t |-> "number", v |-> "5"] ELSE [t |-> "str", v |-> a[i + 1]]

\* C29: in flag syntax every --key that is no dispatcher flag gives one
\* parameter, named by the key with hyphens as underscores; its value is true
\* when the key is the last token or a "--" token follows, and otherwise the
\* next token parsed as JSON, or as it stands when it is no JSON; of a key given
\* twice the last one counts; the dispatcher's flags and the target of
\* --sample-via never become parameters
C29_Flags ==
    pc = "returned" /\ params.t = "dict" /\ name = Null =>
       LET data == params.d IN
       /\ DOMAIN data = {k \in {"name", "dry_run"} : KeysOf(args, k) # {}}
       /\ \A k \in DOMAIN data :
             \E i \in KeysOf(args, k) :
                /\ \A j \in KeysOf(args, k) : j <= i
                /\ data[k] = ValueAt(args, i)

\* --dry-run 5 --dry_run: one parameter dry_run, true
C29_Witness ==
    /\ pc = "returned"
    /\ args = <<"--dry-run", "5", "--dry_run">>
    /\ DOMAIN params.d = {"dry_run"}
    /\ params.d["dry_run"].t = "bool"

\* --sample-via stdin --name: the only parameter is name
C29_WitnessTarget ==
    /\ pc = "returned"
    /\ args = <<"--sample-via", "stdin", "--name">>
    /\ DOMAIN params.d = {"name"}

\* ------------------------------------------------------------- ToolRegistry
\* how many paths a registry is built from
MaxPaths == 3

\* the executables: two that answer --discover with a manifest, one that does
\* not exist, one that cannot be started, one that runs past the 5 seconds,
\* one that exits non-zero, one that prints no JSON, one that prints a JSON
\* list
ToolPaths == {"/ok1", "/ok2", "/missing", "/noexec", "/slow", "/fails", "/garbage", "/list"}

PathLists == UNION {[1..n -> ToolPaths] : n \in 1..MaxPaths}

\* path.exists()
PathExists(path) == path # "/missing"

\* what subprocess.run and json.loads make of the executable
DiscoverOutcome(path) ==
    CASE path \in {"/ok1", "/ok2"} -> "manifest"
      [] path = "/noexec" -> "OSError"
      [] path = "/slow" -> "TimeoutExpired"
      [] path = "/fails" -> "nonzero"
      [] path = "/garbage" -> "JSONDecodeError"
      [] path = "/list" -> "AttributeError"
      [] OTHER -> "none"

\* the tools, resources and prompts of a manifest
ManifestTools(path) == IF path = "/ok1" THEN {"t1"} ELSE {"t1", "t2"}
ManifestResources(path) == IF path = "/ok1" THEN <<"/f/{id}">> ELSE <<>>
ManifestPrompts(path) == IF path = "/ok1" THEN {"p1"} ELSE {}

\* warnings.warn(f"Failed to load tool from {path}: {e}")
LoadWarning(path) == Dict([warning |-> "Failed to load tool from ", path |-> path])

\* ToolRegistry.__init__ up to the loop: three empty dicts
NewRegistry(paths) ==
    /\ pc = "registry"
    /\ args' = paths
    /\ pc' = "loading"
    /\ UNCHANGED <<config, cwd, name, streaming, session_mode, params, timer, exc, propagating,
                   toolst, driver, channels>>

\* the path that the loop of __init__ is at
LoadingPath == args[invoked + 1]

\* the loop of __init__ goes on, or __init__ returns
AfterLoad == pc' = (IF invoked + 1 < Len(args) THEN "loading" ELSE "done")

\* _load_tool: the path does not exist, or --discover exits non-zero
LoadSkips ==
    /\ pc = "loading"
    /\ ~PathExists(LoadingPath) \/ DiscoverOutcome(LoadingPath) = "nonzero"
    /\ invoked' = invoked + 1
    /\ AfterLoad
    /\ UNCHANGED <<config, cwd, locals, timer, exc, propagating, result, body_ran, body_exc,
                   mode, driver, channels>>

\* _load_tool: subprocess.run or json.loads raises one of the caught exceptions
LoadWarns ==
    /\ pc = "loading"
    /\ PathExists(LoadingPath)
    /\ DiscoverOutcome(LoadingPath) \in {"TimeoutExpired", "JSONDecodeError", "OSError"}
    /\ stderr' = Push(stderr, LoadWarning(LoadingPath))
    /\ invoked' = invoked + 1
    /\ AfterLoad
    /\ UNCHANGED <<config, cwd, locals, timer, exc, propagating, result, body_ran, body_exc,
                   mode, driver, stdin_closed, stdout, reads, sent, yielded>>

\* _load_tool: the manifest's tools, resources and prompts are stored with _path
LoadRegisters ==
    /\ pc = "loading"
    /\ PathExists(LoadingPath)
    /\ DiscoverOutcome(LoadingPath) = "manifest"
    /\ tools' = [n \in DOMAIN tools \cup ManifestTools(LoadingPath) |->
                    IF n \in ManifestTools(LoadingPath) THEN LoadingPath ELSE tools[n]]
    /\ resources' = (IF \A i \in 1..Len(ManifestResources(LoadingPath)) :
                           In(ManifestResources(LoadingPath)[i], resources)
                     THEN resources
                     ELSE resources \o ManifestResources(LoadingPath))
    /\ prompts' = prompts \cup ManifestPrompts(LoadingPath)
    /\ invoked' = invoked + 1
    /\ AfterLoad
    /\ UNCHANGED <<platform, argv, doc, gen_max, request_id, registered, cwd, locals, timer, exc,
                   propagating, result, body_ran, body_exc, mode, driver, channels>>

\* _load_tool: manifest.get on JSON that is no object raises AttributeError,
\* which the except clause does not name
LoadRaises ==
    /\ pc = "loading"
    /\ PathExists(LoadingPath)
    /\ DiscoverOutcome(LoadingPath) = "AttributeError"
    /\ exc' = OtherException(Msg("'list' object has no attribute 'get'", Null))
    /\ invoked' = invoked + 1
    /\ pc' = "escaped"
    /\ UNCHANGED <<config, cwd, locals, timer, propagating, result, body_ran, body_exc, mode,
                   driver, channels>>

\* the construction of a registry
RegistryInit ==
    /\ tools = <<>>
    /\ registered = <<>>
    /\ resources = <<>>
    /\ prompts = {}
    /\ platform = "Unix"
    /\ argv = <<>>
    /\ doc = EmptyDoc
    /\ gen_max = 0
    /\ request_id = "id1"
    /\ pc = "registry"
    /\ Blank

RegistryNext ==
    \/ \E paths \in PathLists : NewRegistry(paths)
    \/ LoadSkips
    \/ LoadWarns
    \/ LoadRegisters
    \/ LoadRaises

RegistrySpec == RegistryInit /\ [][RegistryNext]_vars

\* ---------------------------------------------------------------------- C30
\* the paths that _load_tool was called with
Loaded == {args[i] : i \in 1..invoked}

\* C30 as stated: an executable whose --discover times out, exits non-zero or
\* prints malformed JSON leaves a warning, registers nothing, and the loading
\* goes on with the remaining paths
C30_Original ==
    \A path \in Loaded \cap {"/slow", "/fails", "/garbage"} :
       /\ \E i \in 1..Len(stderr) : stderr[i] = LoadWarning(path)
       /\ \A n \in DOMAIN tools : tools[n] # path
       /\ pc \in {"loading", "done"}

\* ---------------------------------------------------------------------- C31
\* the mode flags of the invocation that the tool's metadata does not declare
UndeclaredFlags ==
    {flag \in {"--stream", "--session"} :
        /\ In(flag, args)
        /\ ~(IF flag = "--stream" THEN tools[name].streaming ELSE tools[name].session_mode)}

\* C31 as stated: a tool that is given --stream or --session without having
\* declared that mode runs Direct
C31_Original ==
    (name # Null /\ mode # Null /\ UndeclaredFlags # {} /\ fired_at = Null)
    => mode = "Direct"

\* C31: the mode is fixed by the metadata alone: streaming selects Streaming,
\* session_mode without streaming selects Session, anything else Direct, and the
\* run enters that mode or, lacking the flag of that mode, is refused; a mode
\* flag the tool did not declare changes nothing of this, and a tool that
\* declares neither mode runs Direct whatever flags it is given and, when no
\* deadline fires, ends with exactly one envelope on stdout
C31_ModeByMetadata ==
    (name # Null /\ mode # Null /\ fired_at = Null)
    => LET declared == IF tools[name].streaming THEN "Streaming"
                       ELSE IF tools[name].session_mode THEN "Session"
                       ELSE "Direct"
           required == IF declared = "Streaming" THEN "--stream" ELSE "--session"
       IN  /\ mode \in {declared, "Rejected"}
           /\ mode = "Rejected" <=> (declared # "Direct" /\ ~In(required, args))
           /\ declared = "Direct" =>
                 /\ yielded = <<>>
                 /\ reads = <<>>
                 /\ pc \in Terminal =>
                       /\ pc = "done"
                       /\ Len(stdout) = 1
                       /\ IsDict(stdout[1])

\* a tool that declares neither mode was run with --stream and --session and
\* answered with one envelope
C31_Witness ==
    /\ pc = "done"
    /\ name # Null
    /\ ~tools[name].streaming
    /\ ~tools[name].session_mode
    /\ In("--stream", args)
    /\ In("--session", args)
    /\ mode = "Direct"
    /\ Len(stdout) = 1

\* ---------------------------------------------------------------------- C32
\* nothing but the one answer has happened in the run of the tool
OnlyAnswered(answer) ==
    /\ pc \in {"tool", "done"}
    /\ pc = "tool" => stdout = <<>>
    /\ pc = "done" => stdout = <<answer>>
    /\ invoked = 0
    /\ ~body_ran
    /\ params.t = "none"
    /\ cwd = "/cwd0"
    /\ deadline = "none"
    /\ reads = <<>>

\* C32: the flags of a tool are honoured in the order --manifest, --help,
\* --validate, execution, wherever they stand among the arguments: --manifest
\* prints the manifest, else --help prints the tool's help, and in both cases
\* the tool is not invoked, no input is parsed or validated and neither the
\* working directory nor a deadline is touched; else --validate prints its
\* verdict without invoking the tool; only without the three is the input
\* parsed for execution
C32_FlagOrder ==
    name # Null =>
       IF In("--manifest", args)
       THEN OnlyAnswered([t |-> "dict", d |-> [manifest |-> name]])
       ELSE IF In("--help", args)
       THEN OnlyAnswered([t |-> "text", d |-> [value |-> "tool help"]])
       ELSE IF In("--validate", args)
       THEN /\ pc \in {"tool", "done"}
            /\ invoked = 0
            /\ params.t = "none"
            /\ pc = "done" => Len(stdout) = 1 /\ IsDict(stdout[1]) /\ "valid" \in DOMAIN stdout[1].d
       ELSE pc = "done" /\ stdout # <<>> =>
               /\ stdout[1].t # "text"
               /\ ~(IsDict(stdout[1]) /\ "manifest" \in DOMAIN stdout[1].d)
               /\ ~(IsDict(stdout[1]) /\ "valid" \in DOMAIN stdout[1].d)

\* --help and --manifest were given in this order, with --manifest answered
C32_Witness ==
    /\ pc = "done"
    /\ argv = <<"t1", "--help", "--manifest">>
    /\ stdout = <<[t |-> "dict", d |-> [manifest |-> "t1"]]>>
    /\ invoked = 0

\* --validate and --help were given in this order, with --help answered
C32_WitnessHelp ==
    /\ pc = "done"
    /\ argv = <<"t1", "--validate", "--help">>
    /\ stdout = <<[t |-> "text", d |-> [value |-> "tool help"]]>>
    /\ invoked = 0

\* ---------------------------------------------------------------------- C33
\* C33: for a tool registered without an input model the reserved fields are
\* not interpreted: parameters named dry_run, timeout and working_dir reach the
\* tool as ordinary arguments, the tool is invoked, no deadline is installed
\* and the working directory is not changed
C33_NoModel ==
    (name # Null /\ ~tools[name].input_model) =>
       /\ deadline = "none"
       /\ fired_at = Null
       /\ cwd = "/cwd0"
       /\ pc \notin {"pre_validate", "working_dir", "timeout", "timeout_set", "dry_run"}
       /\ params.t \in {"none", "dict"}
       /\ params.t = "dict" =>
             /\ params.d.kind = "doc" => params.d.fields = doc
             /\ pc \notin {"tool", "invoke"} => invoked = 1

\* a tool without an input model was invoked with dry_run, timeout and
\* working_dir among its arguments
C33_Witness ==
    /\ pc = "done"
    /\ name # Null
    /\ ~tools[name].input_model
    /\ params.t = "dict"
    /\ params.d.kind = "doc"
    /\ params.d.fields.dry_run
    /\ params.d.fields.working_dir = "/work"
    /\ ~params.d.fields.timeout_none
    /\ params.d.fields.timeout = 1
    /\ invoked = 1
    /\ cwd = "/cwd0"
    /\ deadline = "none"

\* ---------------------------------------------------------------------- C34
\* the positions of the yielded events of type result
ResultEvents == {i \in 1..Len(yielded) : yielded[i].d.type = "result"}

\* C34: when the producer is exhausted, run_streaming_tool returns the last
\* yielded event of type result, and none when there was no such event; events
\* of another type do not change what it returns
C34_FinalResult ==
    (mode = "Streaming" /\ gen = "returned") =>
       IF ResultEvents = {}
       THEN final_result.t = "none"
       ELSE /\ final_result.t = "dict"
            /\ \E i \in ResultEvents :
                  /\ \A j \in ResultEvents : j <= i
                  /\ final_result = yielded[i]

\* the producer yielded result, result, progress and the second event was returned
C34_Witness ==
    /\ mode = "Streaming"
    /\ gen = "returned"
    /\ Len(yielded) = 3
    /\ yielded[1].d.type = "result"
    /\ yielded[2].d.type = "result"
    /\ yielded[3].d.type = "progress"
    /\ final_result = yielded[2]

\* the producer yielded no event of type result and none was returned
C34_WitnessNone ==
    /\ mode = "Streaming"
    /\ gen = "returned"
    /\ Len(yielded) = 2
    /\ ResultEvents = {}
    /\ final_result.t = "none"

\* ---------------------------------------------------------------------- C35
\* the arguments are one flag with a JSON object for its value
ObjectIsFlagValue == name # Null /\ args = <<"--name", "{doc}">>

\* C35 as stated: a JSON object that is the value of a flag becomes the value of
\* that flag's parameter: the input is the dict of the flags, never the object
\* taken as the whole input
C35_Original ==
    (ObjectIsFlagValue /\ params.t # "none")
    => params.t = "dict" /\ params.d.kind = "unexpected"

\* ---------------------------------------------------------------------- C36
\* an event of type session_end is among the values printed on stdout
SessionEndEmitted ==
    \E i \in 1..Len(stdout) :
        /\ stdout[i].t = "dict"
        /\ "type" \in DOMAIN stdout[i].d
        /\ stdout[i].d.type = "session_end"

\* C36 as stated: once an event of type session_end has been emitted, whether it
\* was the generator's first event or a later one, no step of the session
\* driver reads a line of input
C36_Original == [][SessionEndEmitted => reads' = reads]_vars

\* ---------------------------------------------------------------------- C37
\* the invocation of a tool is over and the tool callable was never called
EndedWithoutCall ==
    /\ name # Null
    /\ pc = "done"
    /\ invoked = 0
    /\ ~body_ran
    /\ fired_at = Null

\* C37 as stated: an invocation that ends without calling the tool (refused by
\* pre_validate, by the working_dir check or by the timeout check, or cut short
\* by dry_run) leaves the working directory of the process as it was
C37_Original == EndedWithoutCall => cwd = "/cwd0"

\* ------------------------------------------- --validate, then the execution
\* sys.argv[1:] of the same command without --validate
WithoutValidate(a) ==
    LET Keep(tok) == tok # "--validate" IN SelectSeq(a, Keep)

\* one tool with an input model, asked to validate a document
ValidateInit ==
    /\ tools = [t1 |-> [streaming |-> FALSE, session_mode |-> FALSE, input_model |-> TRUE]]
    /\ registered = RegisteredOnce(tools)
    /\ resources = <<"/f/{id}">>
    /\ prompts = PromptNames
    /\ request_id = "id1"
    /\ argv \in {<<"t1", "--validate", "{doc}">>, <<"t1", "{doc}", "--validate">>,
                 <<"t1", "--validate", "{inv}">>, <<"t1", "--validate", "{bad">>}
    /\ doc \in Docs
    /\ (~In("{doc}", argv)) => doc = EmptyDoc
    /\ platform = "Unix"
    /\ gen_max = 0
    /\ Fresh

\* the command is run a second time, now without --validate: a new process
\* whose run() is entered with the same registry and the same document, its
\* output following the verdict on the caller's side of stdout
Execute ==
    /\ pc = "done"
    /\ name # Null
    /\ In("--validate", argv)
    /\ argv' = WithoutValidate(argv)
    /\ pc' = "run"
    /\ name' = Null
    /\ args' = <<>>
    /\ streaming' = FALSE
    /\ session_mode' = FALSE
    /\ params' = NoValue
    /\ UNCHANGED <<tools, resources, prompts, platform, doc, gen_max, request_id, registered,
                   cwd, timer, exc, propagating, toolst, driver, channels>>

\* _validate_input, then _run_tool up to the call of the tool (lines 173-251)
ValidateNext ==
    \/ RunTool
    \/ ToolValidate
    \/ Execute
    \/ ToolParse
    \/ PreValidate
    \/ WorkingDir
    \/ TimeoutCheck
    \/ TimeoutInstalled
    \/ DryRun

ValidateSpec == ValidateInit /\ [][ValidateNext]_vars

\* ---------------------------------------------------------------------- C39
\* --validate answered {valid: true} and the same command is being executed
ExecutedAfterValid ==
    /\ name # Null
    /\ ~In("--validate", argv)
    /\ stdout # <<>>
    /\ IsVerdict(stdout[1])
    /\ stdout[1].d.valid

\* v is the error envelope of a check on the input made before the tool is called
InputRefusal(v) ==
    /\ IsErrorEnvelope(v)
    /\ v.d.error.code \in {"INVALID_INPUT", "INVALID_PATH"}

\* C39 as stated, for the checks that the input alone decides: when --validate
\* reported {valid: true}, the execution of the same tool with the same input
\* is refused neither by JSON parsing, nor by model validation, nor by the
\* working_dir check, nor by the timeout range check
C39_Original ==
    ExecutedAfterValid => \A i \in 2..Len(stdout) : ~InputRefusal(stdout[i])

\* --------------------------------------- a session whose generator samples
\* gen.send(input_data) (session.py 34) resumes a generator whose body calls
\* sample() before its next yield: _sample_via_stdin is entered
SessionSamples ==
    /\ pc = "session"
    /\ spc = "send"
    /\ CanYield
    /\ sent' = Push(sent, input_data)
    /\ body_ran' = TRUE
    /\ spc' = "sampling"
    /\ pc' = "sample"
    /\ UNCHANGED <<config, cwd, locals, timer, exc, propagating, result, invoked, body_exc, mode,
                   gen, event, input_data, final, final_result,
                   stdin_closed, stdout, stderr, reads, yielded>>

\* sample() has returned its content (sampling.py 64) and the generator goes on
\* to its next yield, its return or an exception of its own
SampleResumed ==
    /\ pc = "sample_returned"
    /\ spc = "sampling"
    /\ \/ \E ty \in SessionTypes :
             /\ GenYields(ty)
             /\ spc' = "emit"
             /\ pc' = "session"
             /\ UNCHANGED final
       \/ /\ GenReturns
          /\ SessionReturns(SessionSuccess)
       \/ \E e \in BodyErrors :
             /\ GenRaises(e)
             /\ SessionReturns(SessionError(e.message))
    /\ UNCHANGED <<config, cwd, locals, timer, exc, propagating, result, invoked, mode,
                   input_data, final_result, stdin_closed, stdout, stderr, reads, sent>>

\* what sample() raised (sampling.py 60, 62) leaves the generator and is
\* caught by run_session_tool (session.py 44-45)
SampleRaised ==
    /\ pc = "sample_raised"
    /\ spc = "sampling"
    /\ GenRaises(exc)
    /\ SessionReturns(SessionError(exc.message))
    /\ UNCHANGED <<config, cwd, locals, timer, exc, propagating, result, invoked, mode,
                   input_data, final_result, stdin_closed, stdout, stderr, reads, sent>>

\* one session tool run with --session; sample() is configured for stdin
SamplingInit ==
    /\ tools = [t1 |-> [streaming |-> FALSE, session_mode |-> TRUE, input_model |-> FALSE]]
    /\ registered = RegisteredOnce(tools)
    /\ resources = <<"/f/{id}">>
    /\ prompts = PromptNames
    /\ request_id \in RequestIds
    /\ argv = <<"t1", "--session">>
    /\ doc = EmptyDoc
    /\ platform = "Unix"
    /\ gen_max \in 1..MaxYield
    /\ Fresh

SamplingNext ==
    \/ RunTool
    \/ ToolParse
    \/ Invoke
    \/ ModeResolve
    \/ SessionFirst
    \/ SessionEmitFirst
    \/ SessionRecv
    \/ SessionSend
    \/ SessionSamples
    \/ SampleRequest
    \/ SampleRead
    \/ SampleResumed
    \/ SampleRaised
    \/ SessionEmit
    \/ SessionPrintFinal
    \/ Finally

SamplingSpec == SamplingInit /\ [][SamplingNext]_vars

\* ---------------------------------------------------------------------- C40
\* the line is the sample_response that answers the generator's request
AnswersSample(line) == line \in SampleLines /\ SampleMatches(line, request_id)

\* the lines read that are meant for the session, in arrival order
SessionLines ==
    LET Meant(line) == ~AnswersSample(line) IN SelectSeq(reads, Meant)

\* json.loads of a line meant for the session
SessionValueOf(line) ==
    IF line \in SampleLines
    THEN Dict([type |-> SampleType(line), id |-> SampleId(line)])
    ELSE ValueOfLine(line)

\* C40 as stated: whenever the session driver is about to read, every line
\* read so far, by the driver or by sample() while it waited, other than the
\* sample_response that answered the request, has been sent to the generator,
\* in arrival order
C40_Original ==
    (pc = "session" /\ spc = "recv" /\ Len(reads) < MaxHist)
    => /\ Len(sent) = Len(SessionLines)
       /\ \A k \in 1..Len(sent) : sent[k] = SessionValueOf(SessionLines[k])

\* ---------------------------------------------------------------------- C38
\* a tool that declares neither mode was given a timeout in range, the SIGALRM
\* deadline was installed for it and the tool was called
DirectWithDeadline ==
    /\ name # Null
    /\ ~IsGeneratorFn(tools[name])
    /\ platform = "Unix"
    /\ deadline # "none"
    /\ invoked > 0

\* C38 as stated, where the deadline is the SIGALRM alarm: once the deadline is
\* installed for a direct-mode tool and the tool is called, run() ends by
\* returning, whatever the instant the alarm is delivered, and stdout has then
\* received exactly one envelope: the ToolError of the handler never leaves
\* _run_tool
C38_Original ==
    (DirectWithDeadline /\ pc \in Terminal) => pc = "done" /\ Len(stdout) = 1

====
